---- MODULE Spec2Model ----
(***************************************************************************)
(* Model of algo.py: the quoting cycle of one instrument                   *)
(* (run_market_making_strategy_for_options / _futures / _dual, which share *)
(* the same reconciliation code: operational_optimazation + update_quotes) *)
(* against an exchange holding the instrument's resting orders and         *)
(* position, and the delta hedge of an underlying (hedge_delta_position).  *)
(*                                                                         *)
(* The prices, credits and deviations of the quoting code are Python       *)
(* floats and are computed here in binary64 arithmetic.  The prices of the *)
(* underlying's book that the hedge passes on unchanged are integers in    *)
(* hundredths; option deltas are integers in hundredths, so the aggregate  *)
(* delta is kept in hundredths of a lot.                                   *)
(***************************************************************************)
EXTENDS Integers, Sequences, FiniteSets, TLC

VARIABLES
    \* ---- exchange state of the quoted instrument
    orders,               \* resting limit orders of the engine: records
    position,             \* exchange.get_positions()[instrument_id]
    fills,                \* number of fills of resting orders so far
    \* ---- control state of the quoting cycle
    pc,                   \* position of the quoting code between exchange calls
    cycle,                \* number of quoting cycles started on new market data
    \* ---- locals of run_market_making_strategy_for_*
    theoretical_price,
    optimal_credit,
    optimal_volume,
    instrument_position,
    new_bid_price,
    new_ask_price,
    outstanding_orders,   \* snapshot of line 485
    arguments,            \* result of operational_optimazation
    \* ---- locals of update_quotes
    to_delete,            \* orders of the snapshot of line 111 still to visit
    uq_position,          \* position read at line 123
    bid_volume,
    ask_volume,
    \* ---- observation: the order actions issued in the current cycle
    log,
    \* ---- observation: what the strategy computed in the last completed cycle
    previous_cycle,
    \* ---- observation: the exchange calls of the engine that were rejected
    rejected,
    \* ---- exchange state the hedge reads: position per instrument
    exchange_positions,
    \* ---- control state and locals of hedge_delta_position
    hpc,                  \* position of the hedging code between exchange calls
    stock_id,             \* the underlying of the current hedge_delta_position call
    todo,                 \* options the loop of line 187 still has to visit
    positions,            \* the last exchange.get_positions() snapshot
    options_deltas,
    aggregate_position_delta,   \* in hundredths of a lot
    stock_position,
    underlying_order_book,
    \* ---- observation
    hedge_orders,         \* the orders this call has sent
    moved,                \* a position changed while this call was running
    hedges,               \* calls of hedge_delta_position so far
    moves,                \* position changes of quoted instruments so far
    \* ---- the market data a run of the quoting cycle can be given
    feed,
    \* ---- control state of the trade loop (lines 674-710)
    lpc,                  \* the statement of the loop body about to run
    iteration,            \* iterations of the loop started
    stock_value,          \* result of the last get_weighted_midpoint_value
    ltodo,                \* instruments the current for loop still has to visit
    option_kinds,         \* option_kind of each option of load_instruments_for_underlying
    raised,               \* the exception that ended the program, if any
    \* ---- observation of the current iteration
    visited,              \* the steps run, in order
    calls,                \* the exchange calls of the statement that ran last, in order
    events,               \* the statements that issued order actions, in order
    none_read,            \* underlyings whose midpoint was read as None
    \* ---- the last call of a function checked on its own
    call

quoteVars == <<orders, position, fills, pc, cycle, theoretical_price, optimal_credit,
               optimal_volume, instrument_position, new_bid_price, new_ask_price,
               outstanding_orders, arguments, to_delete, uq_position,
               bid_volume, ask_volume, log, previous_cycle, rejected>>

hedgeVars == <<exchange_positions, hpc, stock_id, todo, positions, options_deltas,
               aggregate_position_delta, stock_position, underlying_order_book,
               hedge_orders, moved, hedges, moves>>

loopVars == <<lpc, iteration, stock_value, ltodo, option_kinds, raised, visited, calls,
              events, none_read>>

pureVars == <<call>>

vars == <<quoteVars, hedgeVars, feed, loopVars, pureVars>>

\* what a step of the quoting cycle, and a step of the hedge, leaves alone
quoteFrame == <<hedgeVars, feed, loopVars, pureVars>>
hedgeFrame == <<quoteVars, feed, loopVars, pureVars>>

-----------------------------------------------------------------------------
(* Program constants *)

\* position_limit=100 passed to update_quotes
PositionLimit == 100
\* emergency mark: instrument_position > 65 / < -65
EmergencyPosition == 65
\* optimal_volume > 45 -> 45
MaxOptimalVolume == 45

(* Bounds of the model *)

\* quoting cycles explored
MaxCycles == 2
\* fills of resting orders the market makes
MaxFills == 2
\* calls of hedge_delta_position in a run
MaxHedges == 2
\* position changes of quoted instruments in a run
MaxMoves == 1

(* Inputs the environment supplies *)

\* <<average_volume_ask, average_volume_bid>> in tenths of a lot,
\* <<best ask volume, best bid volume>> of the instrument's book
SizerInputs == { <<<<52, 48>>, <<0, 0>>>>, <<<<300, 300>>, <<200, 160>>>> }
\* sizes of a partial fill of a resting order
PartialFills == {5}
\* the instrument's position on the exchange when the engine starts
InitialPositions == {-70, 0, 95}

NoId == 0
\* Python's None
None == [none |-> TRUE]
\* no price: an empty side of the underlying's book
NoPrice == -1

-----------------------------------------------------------------------------
(* Pure helpers *)

Min(a, b) == IF a <= b THEN a ELSE b
Abs(a) == IF a < 0 THEN -a ELSE a
MaxOf(S) == CHOOSE x \in S : \A y \in S : y <= x

\* Python round() of the rational num/den (den > 0): to nearest, ties to even
RoundHalfEven(num, den) ==
    LET fl == num \div den
        r2 == 2 * (num - fl * den)
    IN  IF r2 > den THEN fl + 1
        ELSE IF r2 < den THEN fl
        ELSE IF fl % 2 = 0 THEN fl ELSE fl + 1

-----------------------------------------------------------------------------
(* Python floats: IEEE-754 binary64 arithmetic, round to nearest, ties to    *)
(* even.  A natural number of any size is a sequence of limbs in base 2^15,  *)
(* least significant first, without leading zero limbs; a non-negative float *)
(* is [m |-> mantissa, e |-> exponent] standing for m * 2^e, the mantissa    *)
(* having exactly 53 bits (zero: empty mantissa, exponent 0).  The limb      *)
(* operations look carries and borrows ahead instead of rippling them.       *)

Limb == 32768
LimbBits == 15
MantissaBits == 53

Pow2(k) == 2 ^ k

\* a without its leading zero limbs
BigNorm(a) ==
    IF a = <<>> THEN <<>>
    ELSE LET nonzero == {i \in 1..Len(a) : a[i] # 0}
         IN  IF nonzero = {} THEN <<>> ELSE SubSeq(a, 1, MaxOf(nonzero))

RECURSIVE BigFromInt(_)
BigFromInt(n) == IF n = 0 THEN <<>> ELSE <<n % Limb>> \o BigFromInt(n \div Limb)

\* only for numbers below 2^30
BigToInt(a) ==
    IF a = <<>> THEN 0
    ELSE IF Len(a) = 1 THEN a[1]
    ELSE a[1] + Limb * a[2]

BigDigit(a, i) == IF i <= Len(a) THEN a[i] ELSE 0

\* -1, 0, 1: a below, equal to, above b
BigCmp(a, b) ==
    IF Len(a) < Len(b) THEN -1
    ELSE IF Len(a) > Len(b) THEN 1
    ELSE LET differ == {i \in 1..Len(a) : a[i] # b[i]}
         IN  IF differ = {} THEN 0
             ELSE IF a[MaxOf(differ)] < b[MaxOf(differ)] THEN -1
             ELSE 1

\* a + b: limb i receives a carry when a limb below it overflows and every
\* limb in between is full
BigAdd(a, b) ==
    IF a = <<>> THEN BigNorm(b)
    ELSE IF b = <<>> THEN BigNorm(a)
    ELSE LET n        == IF Len(a) >= Len(b) THEN Len(a) ELSE Len(b)
             s(i)     == BigDigit(a, i) + BigDigit(b, i)
             carry(i) == \E j \in 1..(i - 1) :
                             s(j) >= Limb /\ \A k \in (j + 1)..(i - 1) : s(k) = Limb - 1
             limbs    == [i \in 1..(n + 1) |->
                             (s(i) + (IF carry(i) THEN 1 ELSE 0)) % Limb]
         IN  BigNorm(SubSeq(limbs, 1, n + 1))

\* a - b for a >= b: limb i lends when a limb below it falls short and every
\* limb in between is level
BigSub(a, b) ==
    IF b = <<>> THEN a
    ELSE LET d(i)      == a[i] - BigDigit(b, i)
             borrow(i) == \E j \in 1..(i - 1) :
                              d(j) < 0 /\ \A k \in (j + 1)..(i - 1) : d(k) = 0
             limbs     == [i \in 1..Len(a) |->
                              (d(i) - (IF borrow(i) THEN 1 ELSE 0) + Limb) % Limb]
         IN  BigNorm(SubSeq(limbs, 1, Len(a)))

\* a * d for a limb d: the low halves of the limb products plus their high
\* halves one limb up
BigMulSmall(a, d) ==
    IF a = <<>> \/ d = 0 THEN <<>>
    ELSE LET low  == [i \in 1..Len(a) |-> (a[i] * d) % Limb]
             high == [i \in 1..Len(a) |-> (a[i] * d) \div Limb]
         IN  BigAdd(SubSeq(low, 1, Len(a)), <<0>> \o high)

BigZeros(n) == [i \in 1..n |-> 0]

\* a * b for b of at most four limbs, a mantissa
BigMul(a, b) ==
    LET partial(j) == BigZeros(j - 1) \o BigMulSmall(a, BigDigit(b, j))
    IN  BigAdd(BigAdd(partial(1), partial(2)), BigAdd(partial(3), partial(4)))

\* a * 2^k
BigShl(a, k) ==
    IF a = <<>> THEN <<>>
    ELSE BigZeros(k \div LimbBits) \o BigMulSmall(a, Pow2(k % LimbBits))

\* floor(a / 2^k)
BigShr(a, k) ==
    IF a = <<>> \/ k = 0 THEN a ELSE
    LET whole == k \div LimbBits
        bits  == k % LimbBits
        n     == Len(a) - whole
        limbs == [i \in 1..n |->
                     (a[i + whole] \div Pow2(bits))
                     + (BigDigit(a, i + whole + 1) % Pow2(bits)) * Pow2(LimbBits - bits)]
    IN  IF n <= 0 THEN <<>> ELSE BigNorm(SubSeq(limbs, 1, n))

\* the number of bits of a limb
IntBitLength(n) == CHOOSE k \in 0..LimbBits : n < Pow2(k) /\ (k = 0 \/ n >= Pow2(k - 1))

BigBitLength(a) ==
    IF a = <<>> THEN 0 ELSE LimbBits * (Len(a) - 1) + IntBitLength(a[Len(a)])

BigIsOdd(a) == a # <<>> /\ a[1] % 2 = 1

\* the largest limb d with b * d <= r, for r < b * Limb and a divisor b whose
\* top limb has its top bit set: the estimate from the top limbs of r and b is
\* the digit or at most two above it
BigQuotientDigit(r, b) ==
    LET n     == Len(b)
        top   == BigDigit(r, n + 1) * Limb + BigDigit(r, n)
        guess == Min(top \div b[n], Limb - 1)
    IN  IF BigCmp(BigMulSmall(b, guess), r) <= 0 THEN guess
        ELSE IF BigCmp(BigMulSmall(b, guess - 1), r) <= 0 THEN guess - 1
        ELSE guess - 2

\* the quotient digit d put above the quotient of the limbs below it
BigDivModPut(d, rest) == [q |-> <<d>> \o rest.q, r |-> rest.r]

RECURSIVE BigDivModFrom(_, _, _, _)
\* long division: limb i of a has been brought down to the remainder r2, whose
\* quotient digit is d; the quotient's limbs come most significant first
BigDivModWith(a, b, i, r2, d) ==
    IF i = 1 THEN [q |-> <<d>>, r |-> BigSub(r2, BigMulSmall(b, d))]
    ELSE BigDivModPut(d, BigDivModFrom(a, b, i - 1,
                         BigNorm(<<a[i - 1]>> \o BigSub(r2, BigMulSmall(b, d)))))

BigDivModFrom(a, b, i, r2) ==
    BigDivModWith(a, b, i, r2, IF BigCmp(r2, b) < 0 THEN 0 ELSE BigQuotientDigit(r2, b))

\* the quotient least significant limb first, the remainder shifted back
BigDivModResult(qr, n, s) ==
    <<BigNorm(SubSeq([i \in 1..n |-> qr.q[n + 1 - i]], 1, n)), BigShr(qr.r, s)>>

\* a divided by b whose top limb has its top bit set, a >= b: the division
\* starts at the topmost limbs of a that can hold the divisor
BigDivModAligned(a, b, s) ==
    BigDivModResult(BigDivModFrom(a, b, Len(a) - Len(b) + 1, SubSeq(a, Len(a) - Len(b) + 1, Len(a))),
                    Len(a) - Len(b) + 1, s)

\* both are shifted by s bits, which leaves the quotient as it is
BigDivModBy(a, b, s) == BigDivModAligned(BigShl(a, s), BigShl(b, s), s)

\* <<floor(a / b), a mod b>> for b > 0
BigDivMod(a, b) ==
    IF BigCmp(a, b) < 0 THEN <<<<>>, a>>
    ELSE BigDivModBy(a, b, LimbBits - IntBitLength(b[Len(b)]))

FloatZero == [m |-> <<>>, e |-> 0]

\* the mantissa q of 53 or 54 bits at exponent e: a 54-bit one (a carry out of
\* the rounding) is even and halved
FloatOfMantissa(q, e) ==
    IF BigBitLength(q) > MantissaBits THEN [m |-> BigShr(q, 1), e |-> e + 1]
    ELSE [m |-> q, e |-> e]

\* half is -1, 0, 1: the dropped bits are below, at, above half a unit of q
FloatRoundUp(q, half, sticky) == half > 0 \/ (half = 0 /\ (sticky \/ BigIsOdd(q)))

\* m keeps its top 53 bits q and drops k bits
FloatRoundOff(m, e, sticky, k, q) ==
    FloatOfMantissa(
        IF FloatRoundUp(q, BigCmp(BigSub(m, BigShl(q, k)), BigShl(<<1>>, k - 1)), sticky)
        THEN BigAdd(q, <<1>>) ELSE q,
        e + k)

\* m has len bits
FloatRoundBits(m, e, sticky, len) ==
    IF len <= MantissaBits
    THEN [m |-> BigShl(m, MantissaBits - len), e |-> e - (MantissaBits - len)]
    ELSE FloatRoundOff(m, e, sticky, len - MantissaBits, BigShr(m, len - MantissaBits))

\* the float nearest to m * 2^e, or to a value just above it when sticky;
\* ties go to the even mantissa
FloatRound(m, e, sticky) ==
    IF m = <<>> THEN FloatZero ELSE FloatRoundBits(m, e, sticky, BigBitLength(m))

\* float(n) for an integer n >= 0
FloatOfInt(n) == IF n = 0 THEN FloatZero ELSE FloatRound(BigFromInt(n), 0, FALSE)

\* -1, 0, 1: x below, equal to, above y
FloatCmp(x, y) ==
    IF x.m = <<>> THEN (IF y.m = <<>> THEN 0 ELSE -1)
    ELSE IF y.m = <<>> THEN 1
    ELSE IF x.e < y.e THEN -1
    ELSE IF x.e > y.e THEN 1
    ELSE BigCmp(x.m, y.m)

\* x + y
FloatAdd(x, y) ==
    IF x.m = <<>> THEN y
    ELSE IF y.m = <<>> THEN x
    ELSE LET e == Min(x.e, y.e)
         IN  FloatRound(BigAdd(BigShl(x.m, x.e - e), BigShl(y.m, y.e - e)), e, FALSE)

\* x - y for x >= y
FloatSub(x, y) ==
    IF y.m = <<>> THEN x
    ELSE IF x = y THEN FloatZero
    ELSE LET e == Min(x.e, y.e)
         IN  FloatRound(BigSub(BigShl(x.m, x.e - e), BigShl(y.m, y.e - e)), e, FALSE)

\* x * y
FloatMul(x, y) ==
    IF x.m = <<>> \/ y.m = <<>> THEN FloatZero
    ELSE FloatRound(BigMul(x.m, y.m), x.e + y.e, FALSE)

\* the float nearest to the quotient qr[1], sticky when a remainder qr[2] is left
FloatRoundQuotient(qr, e) == FloatRound(qr[1], e, qr[2] # <<>>)

\* x / y for y > 0
FloatDiv(x, y) ==
    IF x.m = <<>> \/ y.m = <<>> THEN FloatZero
    ELSE FloatRoundQuotient(BigDivMod(BigShl(x.m, MantissaBits + 3), y.m),
                            x.e - y.e - (MantissaBits + 3))

\* x % y for x >= 0, y > 0: exact
FloatMod(x, y) ==
    IF x.m = <<>> \/ y.m = <<>> THEN FloatZero
    ELSE LET e == Min(x.e, y.e)
         IN  FloatRound(BigDivMod(BigShl(x.m, x.e - e), BigShl(y.m, y.e - e))[2], e, FALSE)

\* math.floor(x), an integer
FloatFloor(x) ==
    IF x.m = <<>> THEN 0
    ELSE IF x.e >= 0 THEN BigToInt(BigShl(x.m, x.e))
    ELSE BigToInt(BigShr(x.m, -x.e))

\* math.ceil(x), an integer
FloatCeil(x) ==
    IF x.m = <<>> THEN 0
    ELSE IF x.e >= 0 THEN BigToInt(BigShl(x.m, x.e))
    ELSE IF BigShl(BigShr(x.m, -x.e), -x.e) = x.m THEN BigToInt(BigShr(x.m, -x.e))
    ELSE BigToInt(BigShr(x.m, -x.e)) + 1

\* the float a decimal literal num/den denotes (num, den integers, den > 0)
FloatOf(num, den) == FloatDiv(FloatOfInt(num), FloatOfInt(den))

-----------------------------------------------------------------------------
(* Tick rounding, lines 17-28 *)

\* floor(price / tick_size) * tick_size
round_down_to_tick(price, tick_size) ==
    FloatMul(FloatOfInt(FloatFloor(FloatDiv(price, tick_size))), tick_size)

\* ceil(price / tick_size) * tick_size
round_up_to_tick(price, tick_size) ==
    FloatMul(FloatOfInt(FloatCeil(FloatDiv(price, tick_size))), tick_size)

-----------------------------------------------------------------------------
(* Quote sizing: run_market_making_strategy_for_options, lines 442-482 *)

\* tick_size=0.10 (line 499) and the literal 0.1 of lines 466-482
TickSize == FloatOf(1, 10)

(* Inputs the environment supplies: the feed of a run *)

\* theoretical prices 10.00 and 10.05: on and off the tick grid
TheoreticalPrices == {FloatOf(1000, 100), FloatOf(1005, 100)}
\* sqrt(average_squared_deviation) 0.05 and 0.13: truncate to credit 0 and 0.1
Deviations == {FloatOf(5, 100), FloatOf(13, 100)}

\* round(min(average_volume_ask, average_volume_bid)); averages in tenths
AverageTradedVolume(average_volume_ask, average_volume_bid) ==
    RoundHalfEven(Min(average_volume_ask, average_volume_bid), 10)

\* a sizer without the cap of lines 463-464
OptimalVolumeUncapped(average_traded_volume, current_ask_volume, current_bid_volume) ==
    LET excess_volume == Min(current_ask_volume, current_bid_volume)
                           - average_traded_volume
    IN  IF excess_volume > 0
        THEN RoundHalfEven(100 * average_traded_volume + 15 * excess_volume, 100)
        ELSE average_traded_volume

\* lines 456-464
OptimalVolume(average_traded_volume, current_ask_volume, current_bid_volume) ==
    LET excess_volume == Min(current_ask_volume, current_bid_volume)
                           - average_traded_volume
        v == IF excess_volume > 0
             THEN RoundHalfEven(100 * average_traded_volume + 15 * excess_volume, 100)
             ELSE average_traded_volume
    IN  IF v > MaxOptimalVolume THEN MaxOptimalVolume ELSE v

\* line 466: sqrt(asd) - (sqrt(asd) % 0.1)
OptimalCredit(deviation) == FloatSub(deviation, FloatMod(deviation, TickSize))

\* the price pair the strategy hands to operational_optimazation (lines 469-482)
NewBidPrice(theo, credit, pos) ==
    IF pos > EmergencyPosition
    THEN round_down_to_tick(FloatSub(theo, FloatMul(FloatOf(15, 10), credit)), TickSize)
    ELSE IF pos < -EmergencyPosition
    THEN round_down_to_tick(FloatSub(theo, FloatMul(FloatOf(5, 10), credit)), TickSize)
    ELSE round_down_to_tick(FloatSub(theo, credit), TickSize)

NewAskPrice(theo, credit, pos) ==
    IF pos > EmergencyPosition
    THEN round_up_to_tick(FloatAdd(theo, FloatMul(FloatOf(5, 10), credit)), TickSize)
    ELSE IF pos < -EmergencyPosition
    THEN round_up_to_tick(FloatAdd(theo, FloatMul(FloatOf(15, 10), credit)), TickSize)
    ELSE round_up_to_tick(FloatAdd(theo, credit), TickSize)

-----------------------------------------------------------------------------
(* operational_optimazation, lines 380-431 *)

Asks(os) == {o \in os : o.side = "ask"}
Bids(os) == {o \in os : o.side = "bid"}
\* the last order a loop over the collection visits (orders are listed by id)
LastOrder(os) == CHOOSE o \in os : \A q \in os : q.order_id <= o.order_id

\* a local that no statement has assigned
Unbound == [m |-> <<>>, e |-> -1]

\* lines 391-395: the price the loop leaves in existing_ask_price / existing_bid_price
ExistingPrice(os) == IF os = {} THEN Unbound ELSE LastOrder(os).price

\* lines 400-403
OptimalAskVolume(suggested_volume, inventory) ==
    IF inventory > 0 THEN suggested_volume + inventory ELSE suggested_volume

OptimalBidVolume(suggested_volume, inventory) ==
    IF inventory < 0 THEN suggested_volume + Abs(inventory) ELSE suggested_volume

\* lines 406-420: a flag stays True unless some order of the side matches
UpdatePrice(os, new_price) == ~ \E o \in os : o.price = new_price
UpdateVolume(os, optimal) == ~ \E o \in os : o.volume = optimal
OrderId(os) == IF os = {} THEN NoId ELSE LastOrder(os).order_id

\* mutant: the self-trade check of lines 422-429 left out
SelfTradeCheckSkipped(update_ask_price, update_bid_price, new_ask, new_bid, existing_ask_price, existing_bid_price) ==
    <<update_ask_price, update_bid_price>>

\* lines 422-429: <<update_ask_price, update_bid_price>> after the self-trade check
SelfTradeCheck(update_ask_price, update_bid_price, new_ask, new_bid, existing_ask_price, existing_bid_price) ==
    IF update_ask_price /\ (update_bid_price = FALSE)
    THEN IF new_ask = existing_bid_price
         THEN <<FALSE, update_bid_price>>
         ELSE <<update_ask_price, update_bid_price>>
    ELSE IF update_bid_price /\ (update_ask_price = FALSE)
    THEN IF new_bid = existing_ask_price
         THEN <<update_ask_price, FALSE>>
         ELSE <<update_ask_price, update_bid_price>>
    ELSE <<update_ask_price, update_bid_price>>

operational_optimazation(os, suggested_volume, new_bid, new_ask, inventory) ==
    LET oav == OptimalAskVolume(suggested_volume, inventory)
        obv == OptimalBidVolume(suggested_volume, inventory)
        flags == SelfTradeCheck(UpdatePrice(Asks(os), new_ask),
                                UpdatePrice(Bids(os), new_bid),
                                new_ask, new_bid,
                                ExistingPrice(Asks(os)), ExistingPrice(Bids(os)))
    IN  [ optimal_ask_volume |-> oav,
          optimal_bid_volume |-> obv,
          update_ask_price   |-> flags[1],
          update_bid_price   |-> flags[2],
          ask_order_id       |-> OrderId(Asks(os)),
          bid_order_id       |-> OrderId(Bids(os)),
          update_ask_volume  |-> UpdateVolume(Asks(os), oav),
          update_bid_volume  |-> UpdateVolume(Bids(os), obv),
          inventory          |-> inventory ]

NoArguments == operational_optimazation({}, 0, FloatZero, FloatZero, 0)

-----------------------------------------------------------------------------
(* The exchange, as the calls of update_quotes use it *)

Order(id, side, price, volume) ==
    [order_id |-> id, side |-> side, price |-> price, volume |-> volume]

\* exchange.insert_order(..., order_type='limit'): the order rests
InsertOrder(os, id, side, price, volume) == os \cup {Order(id, side, price, volume)}

\* exchange.delete_order: removes the order if it still rests
DeleteOrder(os, id) == {o \in os : o.order_id # id}

\* exchange.amend_order: sets the volume of the order if it still rests
AmendOrder(os, id, volume) ==
    {IF o.order_id = id THEN [o EXCEPT !.volume = volume] ELSE o : o \in os}

LogIds == {log[i].order_id : i \in 1..Len(log)}
\* the exchange hands out increasing order ids
NewOrderId ==
    1 + MaxOf({NoId} \cup {o.order_id : o \in orders \cup outstanding_orders} \cup LogIds)

Action(op, side, id, price, volume) ==
    [op |-> op, side |-> side, order_id |-> id, price |-> price, volume |-> volume]

-----------------------------------------------------------------------------
(* update_quotes, lines 91-162 *)

\* mutant: only the ask is pulled
ShouldDeleteAskOnly(order, update_ask_price, outstanding_ask_id, update_bid_price, outstanding_bid_id) ==
    update_ask_price /\ order.order_id = outstanding_ask_id

\* line 114
ShouldDelete(order, update_ask_price, outstanding_ask_id, update_bid_price, outstanding_bid_id) ==
    \/ update_ask_price /\ order.order_id = outstanding_ask_id
    \/ update_bid_price /\ order.order_id = outstanding_bid_id

\* mutant: the bid is not capped at the position limit
BidVolumeUncapped(optimal_bid_volume, pos) == optimal_bid_volume

\* lines 124-127
BidVolume(optimal_bid_volume, pos) == Min(optimal_bid_volume, PositionLimit - pos)
AskVolume(optimal_ask_volume, pos) == Min(optimal_ask_volume, PositionLimit + pos)

\* lines 120-121: the prices update_quotes inserts at
BidPrice(theo, credit) == round_down_to_tick(FloatSub(theo, credit), TickSize)
AskPrice(theo, credit) == round_up_to_tick(FloatAdd(theo, credit), TickSize)

\* the side of the emergency mark a position is on (lines 476, 480)
Band(pos) ==
    IF pos > EmergencyPosition THEN "long"
    ELSE IF pos < -EmergencyPosition THEN "short"
    ELSE "flat"
\* a position on each side of the mark
BandPosition(band) ==
    IF band = "long" THEN EmergencyPosition + 1
    ELSE IF band = "short" THEN 0 - (EmergencyPosition + 1)
    ELSE 0

\* what a cycle computes from a theoretical price and a deviation at a
\* position in the band: the credit of line 466, the pair of lines 469-482 and
\* the pair of lines 120-121
ValuationOf(theo, dev, credit, band) ==
    [ theoretical_price |-> theo,
      deviation         |-> dev,
      band              |-> band,
      optimal_credit    |-> credit,
      new_bid_price     |-> NewBidPrice(theo, credit, BandPosition(band)),
      new_ask_price     |-> NewAskPrice(theo, credit, BandPosition(band)),
      bid_price         |-> BidPrice(theo, credit),
      ask_price         |-> AskPrice(theo, credit) ]

\* every valuation a cycle can make on a feed
Valuations(theoretical, deviations) ==
    { ValuationOf(theo, dev, OptimalCredit(dev), b) :
        theo \in theoretical, dev \in deviations, b \in {"long", "flat", "short"} }

\* a feed: the inputs of a run and the valuations the cycles make on them,
\* computed once
Feed(theoretical, deviations, sizer) ==
    [theoretical |-> theoretical, deviations |-> deviations, sizer |-> sizer,
     valuations |-> Valuations(theoretical, deviations)]

GridFeed == Feed(TheoreticalPrices, Deviations, SizerInputs)
\* theoretical prices 12.00 and 12.30, deviation 0.35, mean traded volumes 20.0
\* and 20.0 against an empty book of the instrument
ScenarioFeed ==
    Feed({FloatOf(1200, 100), FloatOf(1230, 100)}, {FloatOf(35, 100)},
         { <<<<200, 200>>, <<0, 0>>>> })
\* no quoting in the run
NoFeed == [theoretical |-> {}, deviations |-> {}, sizer |-> {}, valuations |-> {}]

Valuation(theo, dev, pos) ==
    CHOOSE v \in feed.valuations :
        v.theoretical_price = theo /\ v.deviation = dev /\ v.band = Band(pos)

\* the valuation of a theoretical price and a credit at a position
ValuationAt(theo, credit, pos) ==
    CHOOSE v \in feed.valuations :
        v.theoretical_price = theo /\ v.optimal_credit = credit /\ v.band = Band(pos)

\* lines 130-144 and 146-160: what is done on one side
SideAction(volume, update_price, update_volume) ==
    IF volume > 0 /\ update_price THEN "insert"
    ELSE IF volume > 0 /\ (~update_price) /\ update_volume THEN "amend"
    ELSE "maintain"

-----------------------------------------------------------------------------
(* The quoting cycle of one instrument, one step per exchange call *)

\* what only the end of a cycle and a rejected call change
cycleHistory == <<previous_cycle, rejected>>

strategyLocals == <<theoretical_price, optimal_credit, optimal_volume,
                    instrument_position, new_bid_price, new_ask_price>>

\* lines 435-482: valuation, deviation estimate, sizer and the position read
\* of line 472 (the reads before it return the inputs chosen here)
Strategy ==
    /\ pc = "idle"
    /\ cycle < MaxCycles
    /\ \E theo \in feed.theoretical, dev \in feed.deviations, s \in feed.sizer :
         LET v == Valuation(theo, dev, position) IN
         /\ theoretical_price' = theo
         /\ optimal_credit' = v.optimal_credit
         /\ optimal_volume' = OptimalVolume(AverageTradedVolume(s[1][1], s[1][2]),
                                            s[2][1], s[2][2])
         /\ instrument_position' = position
         /\ new_bid_price' = v.new_bid_price
         /\ new_ask_price' = v.new_ask_price
    /\ cycle' = cycle + 1
    /\ log' = <<>>
    /\ pc' = "snapshot"
    /\ UNCHANGED <<orders, position, fills, outstanding_orders, arguments, to_delete,
                   uq_position, bid_volume, ask_volume, cycleHistory>>
    /\ UNCHANGED quoteFrame

\* line 485: exchange.get_outstanding_orders
Snapshot ==
    /\ pc = "snapshot"
    /\ outstanding_orders' = orders
    /\ pc' = "optimize"
    /\ UNCHANGED <<orders, position, fills, cycle, cycleHistory, strategyLocals, arguments,
                   to_delete, uq_position, bid_volume, ask_volume, log>>
    /\ UNCHANGED quoteFrame

\* lines 489-493: operational_optimazation with its position read of line 397
Optimize ==
    /\ pc = "optimize"
    /\ arguments' = operational_optimazation(outstanding_orders, optimal_volume,
                                             new_bid_price, new_ask_price, position)
    /\ pc' = "fetch"
    /\ UNCHANGED <<orders, position, fills, cycle, cycleHistory, strategyLocals,
                   outstanding_orders, to_delete, uq_position, bid_volume, ask_volume, log>>
    /\ UNCHANGED quoteFrame

\* line 111: the second snapshot; the loop of line 112 visits its orders
FetchOrders ==
    /\ pc = "fetch"
    /\ to_delete' = {o \in orders :
                       ShouldDelete(o, arguments.update_ask_price, arguments.ask_order_id,
                                    arguments.update_bid_price, arguments.bid_order_id)}
    /\ pc' = "delete"
    /\ UNCHANGED <<orders, position, fills, cycle, cycleHistory, strategyLocals,
                   outstanding_orders, arguments, uq_position, bid_volume, ask_volume, log>>
    /\ UNCHANGED quoteFrame

\* line 116: exchange.delete_order for the next flagged order of the snapshot
DeleteStep ==
    /\ pc = "delete"
    /\ to_delete # {}
    /\ LET o == CHOOSE x \in to_delete : \A y \in to_delete : x.order_id <= y.order_id IN
         /\ orders' = DeleteOrder(orders, o.order_id)
         /\ log' = Append(log, Action("delete", o.side, o.order_id, o.price, o.volume))
         /\ to_delete' = to_delete \ {o}
    /\ UNCHANGED <<position, fills, pc, cycle, cycleHistory, strategyLocals, outstanding_orders,
                   arguments, uq_position, bid_volume, ask_volume>>
    /\ UNCHANGED quoteFrame

\* lines 123-127: the position read of update_quotes and the capped volumes
ReadPosition ==
    /\ pc = "delete"
    /\ to_delete = {}
    /\ uq_position' = position
    /\ bid_volume' = BidVolume(arguments.optimal_bid_volume, position)
    /\ ask_volume' = AskVolume(arguments.optimal_ask_volume, position)
    /\ pc' = "bid"
    /\ UNCHANGED <<orders, position, fills, cycle, cycleHistory, strategyLocals,
                   outstanding_orders, arguments, to_delete, log>>
    /\ UNCHANGED quoteFrame

\* mutant: the old bid is pulled after the new one is inserted
BidStepPullAfter ==
    /\ pc = "bid"
    /\ LET act == SideAction(bid_volume, arguments.update_bid_price,
                             arguments.update_bid_volume)
           price == ValuationAt(theoretical_price, optimal_credit, 0).bid_price
       IN  CASE act = "insert" ->
                  /\ orders' = DeleteOrder(InsertOrder(orders, NewOrderId, "bid", price,
                                                       bid_volume),
                                           arguments.bid_order_id)
                  /\ log' = log \o <<Action("insert", "bid", NewOrderId, price, bid_volume),
                                     Action("delete", "bid", arguments.bid_order_id,
                                            NoPrice, 0)>>
             [] act = "amend" ->
                  /\ orders' = AmendOrder(orders, arguments.bid_order_id, bid_volume)
                  /\ log' = Append(log, Action("amend", "bid", arguments.bid_order_id,
                                               price, bid_volume))
             [] OTHER -> UNCHANGED <<orders, log>>
    /\ pc' = "ask"
    /\ UNCHANGED <<position, fills, cycle, cycleHistory, strategyLocals, outstanding_orders,
                   arguments, to_delete, uq_position, bid_volume, ask_volume>>
    /\ UNCHANGED quoteFrame

\* lines 130-144
BidStep ==
    /\ pc = "bid"
    /\ LET act == SideAction(bid_volume, arguments.update_bid_price,
                             arguments.update_bid_volume)
           price == ValuationAt(theoretical_price, optimal_credit, 0).bid_price
       IN  CASE act = "insert" ->
                  /\ orders' = InsertOrder(orders, NewOrderId, "bid", price, bid_volume)
                  /\ log' = Append(log, Action("insert", "bid", NewOrderId, price, bid_volume))
             [] act = "amend" ->
                  /\ orders' = AmendOrder(orders, arguments.bid_order_id, bid_volume)
                  /\ log' = Append(log, Action("amend", "bid", arguments.bid_order_id,
                                               price, bid_volume))
             [] OTHER -> UNCHANGED <<orders, log>>
    /\ pc' = "ask"
    /\ UNCHANGED <<position, fills, cycle, cycleHistory, strategyLocals, outstanding_orders,
                   arguments, to_delete, uq_position, bid_volume, ask_volume>>
    /\ UNCHANGED quoteFrame

\* lines 146-160
AskStep ==
    /\ pc = "ask"
    /\ LET act == SideAction(ask_volume, arguments.update_ask_price,
                             arguments.update_ask_volume)
           price == ValuationAt(theoretical_price, optimal_credit, 0).ask_price
       IN  CASE act = "insert" ->
                  /\ orders' = InsertOrder(orders, NewOrderId, "ask", price, ask_volume)
                  /\ log' = Append(log, Action("insert", "ask", NewOrderId, price, ask_volume))
             [] act = "amend" ->
                  /\ orders' = AmendOrder(orders, arguments.ask_order_id, ask_volume)
                  /\ log' = Append(log, Action("amend", "ask", arguments.ask_order_id,
                                               price, ask_volume))
             [] OTHER -> UNCHANGED <<orders, log>>
    /\ pc' = "done"
    /\ UNCHANGED <<position, fills, cycle, cycleHistory, strategyLocals, outstanding_orders,
                   arguments, to_delete, uq_position, bid_volume, ask_volume>>
    /\ UNCHANGED quoteFrame

\* the function returns: its locals are gone
Return ==
    /\ pc = "done"
    /\ pc' = "idle"
    /\ theoretical_price' = FloatZero
    /\ optimal_credit' = FloatZero
    /\ optimal_volume' = 0
    /\ instrument_position' = 0
    /\ new_bid_price' = FloatZero
    /\ new_ask_price' = FloatZero
    /\ outstanding_orders' = {}
    /\ arguments' = NoArguments
    /\ uq_position' = 0
    /\ bid_volume' = 0
    /\ ask_volume' = 0
    /\ log' = <<>>
    /\ previous_cycle' = <<theoretical_price, optimal_credit, optimal_volume>>
    /\ rejected' = rejected
    /\ UNCHANGED <<orders, position, fills, cycle, to_delete>>
    /\ UNCHANGED quoteFrame

\* the exchange calls a run sees rejected
MaxRejected == 1

\* lines 435-482 in a cycle that finds the market data of the cycle before it;
\* the while loop of line 674 starts such cycles without end, and cycle counts
\* only the cycles that were given new market data
StrategyRepeat ==
    /\ pc = "idle"
    /\ rejected > 0
    /\ theoretical_price' = previous_cycle[1]
    /\ optimal_credit' = previous_cycle[2]
    /\ optimal_volume' = previous_cycle[3]
    /\ instrument_position' = position
    /\ new_bid_price' = ValuationAt(previous_cycle[1], previous_cycle[2], position).new_bid_price
    /\ new_ask_price' = ValuationAt(previous_cycle[1], previous_cycle[2], position).new_ask_price
    /\ log' = <<>>
    /\ pc' = "snapshot"
    /\ UNCHANGED <<orders, position, fills, cycle, outstanding_orders, arguments, to_delete,
                   uq_position, bid_volume, ask_volume, cycleHistory>>
    /\ UNCHANGED quoteFrame

\* lines 435-482 with fresh market data, before any call has been rejected
StrategyFresh == rejected = 0 /\ Strategy

\* line 116 when the exchange rejects the delete: the order stays
DeleteRejected ==
    /\ pc = "delete"
    /\ to_delete # {}
    /\ rejected < MaxRejected
    /\ LET o == CHOOSE x \in to_delete : \A y \in to_delete : x.order_id <= y.order_id IN
         /\ log' = Append(log, Action("delete", o.side, o.order_id, o.price, o.volume))
         /\ to_delete' = to_delete \ {o}
    /\ rejected' = rejected + 1
    /\ UNCHANGED <<orders, position, fills, pc, cycle, previous_cycle, strategyLocals,
                   outstanding_orders, arguments, uq_position, bid_volume, ask_volume>>
    /\ UNCHANGED quoteFrame

\* line 132 when the exchange rejects the insert: no bid is added
BidInsertRejected ==
    /\ pc = "bid"
    /\ rejected < MaxRejected
    /\ SideAction(bid_volume, arguments.update_bid_price, arguments.update_bid_volume)
         = "insert"
    /\ log' = Append(log, Action("insert", "bid", NoId,
                                 ValuationAt(theoretical_price, optimal_credit, 0).bid_price,
                                 bid_volume))
    /\ rejected' = rejected + 1
    /\ pc' = "ask"
    /\ UNCHANGED <<orders, position, fills, cycle, previous_cycle, strategyLocals,
                   outstanding_orders, arguments, to_delete, uq_position, bid_volume,
                   ask_volume>>
    /\ UNCHANGED quoteFrame

\* line 148 when the exchange rejects the insert: no ask is added
AskInsertRejected ==
    /\ pc = "ask"
    /\ rejected < MaxRejected
    /\ SideAction(ask_volume, arguments.update_ask_price, arguments.update_ask_volume)
         = "insert"
    /\ log' = Append(log, Action("insert", "ask", NoId,
                                 ValuationAt(theoretical_price, optimal_credit, 0).ask_price,
                                 ask_volume))
    /\ rejected' = rejected + 1
    /\ pc' = "done"
    /\ UNCHANGED <<orders, position, fills, cycle, previous_cycle, strategyLocals,
                   outstanding_orders, arguments, to_delete, uq_position, bid_volume,
                   ask_volume>>
    /\ UNCHANGED quoteFrame

\* the market trades against a resting order of the engine, in part or in full
Fill ==
    /\ pc # "done"
    /\ fills < MaxFills
    /\ fills' = fills + 1
    /\ \E o \in orders :
         \E f \in {o.volume} \cup {p \in PartialFills : p < o.volume} :
           /\ orders' = IF f = o.volume
                        THEN orders \ {o}
                        ELSE (orders \ {o}) \cup {[o EXCEPT !.volume = o.volume - f]}
           /\ position' = IF o.side = "bid" THEN position + f ELSE position - f
    /\ UNCHANGED <<pc, cycle, cycleHistory, strategyLocals, outstanding_orders, arguments,
                   to_delete, uq_position, bid_volume, ask_volume, log>>
    /\ UNCHANGED quoteFrame

-----------------------------------------------------------------------------
(* hedge_delta_position, lines 165-252 *)

\* 100 - stock_position / 100 + stock_position (lines 214-215, 242-243)
HedgePositionLimit == 100
\* aggregate_position_delta > 35 / < -35 (lines 221, 223)
HedgeThresholdNVDA == 35
\* aggregate_position_delta > 1 / < -1 (lines 249, 251)
HedgeThresholdSAN == 1

Underlyings == {"NVDA", "SAN"}
\* the options and futures load_instruments_for_underlying("NVDA") returns
HedgeOptions == <<"NVDA_C", "NVDA_P">>
HedgeFutures == {"NVDA_F"}
OptionKindOf(option_id) == IF option_id = "NVDA_C" THEN "CALL" ELSE "PUT"
DualOf(stock) == IF stock = "NVDA" THEN "NVDA_DUAL" ELSE "SAN_DUAL"
Instruments == {"NVDA_C", "NVDA_P", "NVDA_F", "NVDA", "NVDA_DUAL", "SAN", "SAN_DUAL"}
QuotedInstruments == Instruments \ Underlyings

(* Inputs the environment supplies *)

\* positions the quoting leaves in a quoted instrument
PositionValues(i) ==
    CASE i = "NVDA_C"    -> {0, 95}
      [] i = "NVDA_P"    -> {0, -70}
      [] i = "NVDA_F"    -> {-10, 0, 40}
      [] i = "NVDA_DUAL" -> {-100, 0, 100}
      [] i = "SAN_DUAL"  -> {0, 2}
\* calculate_option_delta, in hundredths: a call delta in [0, 1], a put delta in [-1, 0]
Deltas(option_kind) == IF option_kind = "CALL" THEN {37, 100} ELSE {-50}
\* best bid and best ask price of the underlying's book; NoPrice: the side is empty
Books == [bid : {NoPrice, 990, 1000}, ask : {NoPrice, 1010}]
\* what an immediate-or-cancel order of the given volume trades
IocFills(volume) == {0, volume \div 2, volume}

NoPositions == [i \in Instruments |-> 0]
\* positions of the stocks that earlier hedges have left
StockValues(i) == IF i = "NVDA" THEN {-100, 0, 40} ELSE {0}
\* the positions the account may hold when a run starts
InitialExchangePositions ==
    { p \in [Instruments -> {-100, -70, -10, 0, 2, 40, 95, 100}] :
        \A i \in Instruments :
          p[i] \in (IF i \in Underlyings THEN StockValues(i) ELSE PositionValues(i)) }
NoBook == [bid |-> NoPrice, ask |-> NoPrice]

RECURSIVE SumPositions(_, _)
\* lines 199-200: the futures' positions added one by one
SumPositions(pos, ids) ==
    IF ids = {} THEN 0
    ELSE LET i == CHOOSE x \in ids : TRUE
         IN  pos[i] + SumPositions(pos, ids \ {i})

\* mutant: the dual listing's position is left out of the aggregate
RestDeltaNoDual(pos, futures, stock) == 100 * (SumPositions(pos, futures) + pos[stock])

\* lines 199-207 and 231-235: futures, stock and dual listing, each with delta 1
RestDelta(pos, futures, stock) ==
    100 * (SumPositions(pos, futures) + pos[stock] + pos[DualOf(stock)])

HedgeThreshold(stock) == IF stock = "NVDA" THEN HedgeThresholdNVDA ELSE HedgeThresholdSAN

\* lines 214-215, 242-243
MaxVolumeToBuy(stock_pos) == HedgePositionLimit - stock_pos

\* mutant: the capacity to sell taken from the wrong side of the limit
MaxVolumeToSellSwapped(stock_pos) == HedgePositionLimit - stock_pos

MaxVolumeToSell(stock_pos) == HedgePositionLimit + stock_pos

\* lines 217-218, 245-246: min(abs(round(aggregate_position_delta)), capacity)
HedgeVolume(aggregate, capacity) == Min(Abs(RoundHalfEven(aggregate, 100)), capacity)

\* mutant: the threshold itself already triggers a hedge
HedgeSideInclusive(aggregate, threshold, ask_vol, bid_vol) ==
    IF aggregate >= 100 * threshold /\ ask_vol > 0 THEN "ask"
    ELSE IF aggregate <= -100 * threshold /\ bid_vol > 0 THEN "bid"
    ELSE "none"

\* lines 221-224, 249-252: the side of the hedge order, if any
HedgeSide(aggregate, threshold, ask_vol, bid_vol) ==
    IF aggregate > 100 * threshold /\ ask_vol > 0 THEN "ask"
    ELSE IF aggregate < -100 * threshold /\ bid_vol > 0 THEN "bid"
    ELSE "none"

hedgeLocals == <<todo, positions, options_deltas, aggregate_position_delta,
                 stock_position, underlying_order_book>>

\* the trade loop calls hedge_delta_position("NVDA", ...) (line 696) and, when
\* SAN has a midpoint, hedge_delta_position("SAN", ...) right after (line 707)
HedgeStart ==
    /\ hpc = "idle"
    /\ hedges < MaxHedges
    /\ hedges' = hedges + 1
    /\ \E s \in Underlyings :
         /\ s = "SAN" => stock_id = "NVDA"
         /\ stock_id' = s
         /\ todo' = IF s = "NVDA" THEN HedgeOptions ELSE <<>>
    /\ hpc' = "aggregate"
    /\ aggregate_position_delta' = 0
    /\ options_deltas' = <<>>
    /\ hedge_orders' = <<>>
    /\ moved' = FALSE
    /\ UNCHANGED <<exchange_positions, positions, stock_position, underlying_order_book, moves>>
    /\ UNCHANGED hedgeFrame

\* lines 187-196: one iteration of the loop over the options
HedgeOption ==
    /\ hpc = "aggregate"
    /\ stock_id = "NVDA"
    /\ todo # <<>>
    /\ LET option_id == Head(todo) IN
       \E delta \in Deltas(OptionKindOf(option_id)) :
         /\ positions' = exchange_positions
         /\ options_deltas' = (option_id :> delta) @@ options_deltas
         /\ aggregate_position_delta' =
               aggregate_position_delta + delta * exchange_positions[option_id]
    /\ todo' = Tail(todo)
    /\ UNCHANGED <<exchange_positions, hpc, stock_id, stock_position,
                   underlying_order_book, hedge_orders, moved, hedges, moves>>
    /\ UNCHANGED hedgeFrame

\* lines 199-209: futures, stock and dual listing from the last snapshot, then
\* the read of the underlying's book
HedgeRestNVDA ==
    /\ hpc = "aggregate"
    /\ stock_id = "NVDA"
    /\ todo = <<>>
    /\ aggregate_position_delta' =
          aggregate_position_delta + RestDelta(positions, HedgeFutures, stock_id)
    /\ stock_position' = positions[stock_id]
    /\ \E book \in Books : underlying_order_book' = book
    /\ hpc' = "book"
    /\ UNCHANGED <<exchange_positions, stock_id, todo, positions, options_deltas,
                   hedge_orders, moved, hedges, moves>>
    /\ UNCHANGED hedgeFrame

\* lines 228-237
HedgeRestSAN ==
    /\ hpc = "aggregate"
    /\ stock_id = "SAN"
    /\ positions' = exchange_positions
    /\ aggregate_position_delta' = RestDelta(exchange_positions, {}, stock_id)
    /\ stock_position' = exchange_positions[stock_id]
    /\ \E book \in Books : underlying_order_book' = book
    /\ hpc' = "book"
    /\ UNCHANGED <<exchange_positions, stock_id, todo, options_deltas, hedge_orders, moved,
                   hedges, moves>>
    /\ UNCHANGED hedgeFrame

\* lines 211-212 and 239-240: the book is read again while a side is empty
HedgeSpin ==
    /\ hpc = "book"
    /\ (underlying_order_book.bid = NoPrice \/ underlying_order_book.ask = NoPrice)
    /\ \E book \in Books : underlying_order_book' = book
    /\ UNCHANGED <<exchange_positions, hpc, stock_id, todo, positions, options_deltas,
                   aggregate_position_delta, stock_position, hedge_orders, moved,
                   hedges, moves>>
    /\ UNCHANGED hedgeFrame

HedgeOrderRecord(side, price, volume, filled) ==
    [instrument |-> stock_id, side |-> side, price |-> price, volume |-> volume,
     order_type |-> "ioc", filled |-> filled,
     position_before |-> exchange_positions[stock_id]]

\* lines 214-224 and 242-252: the volumes and the immediate-or-cancel order
HedgeOrder ==
    /\ hpc = "book"
    /\ underlying_order_book.bid # NoPrice
    /\ underlying_order_book.ask # NoPrice
    /\ LET bid_vol == HedgeVolume(aggregate_position_delta, MaxVolumeToBuy(stock_position))
           ask_vol == HedgeVolume(aggregate_position_delta, MaxVolumeToSell(stock_position))
           side == HedgeSide(aggregate_position_delta, HedgeThreshold(stock_id),
                             ask_vol, bid_vol)
       IN  CASE side = "ask" ->
                  \E f \in IocFills(ask_vol) :
                    /\ exchange_positions' =
                          [exchange_positions EXCEPT ![stock_id] = @ - f]
                    /\ hedge_orders' =
                          Append(hedge_orders,
                                 HedgeOrderRecord("ask", underlying_order_book.bid, ask_vol, f))
             [] side = "bid" ->
                  \E f \in IocFills(bid_vol) :
                    /\ exchange_positions' =
                          [exchange_positions EXCEPT ![stock_id] = @ + f]
                    /\ hedge_orders' =
                          Append(hedge_orders,
                                 HedgeOrderRecord("bid", underlying_order_book.ask, bid_vol, f))
             [] OTHER -> UNCHANGED <<exchange_positions, hedge_orders>>
    /\ hpc' = "done"
    /\ UNCHANGED <<stock_id, hedgeLocals, moved, hedges, moves>>
    /\ UNCHANGED hedgeFrame

\* the function returns: its locals are gone
HedgeReturn ==
    /\ hpc = "done"
    /\ hpc' = "idle"
    /\ todo' = <<>>
    /\ positions' = NoPositions
    /\ options_deltas' = <<>>
    /\ aggregate_position_delta' = 0
    /\ stock_position' = 0
    /\ underlying_order_book' = NoBook
    /\ hedge_orders' = <<>>
    /\ moved' = FALSE
    /\ UNCHANGED <<exchange_positions, stock_id, hedges, moves>>
    /\ UNCHANGED hedgeFrame

\* the quotes of an option, a future or a dual listing trade: its position changes
PositionMove ==
    /\ hpc # "done"
    /\ moves < MaxMoves
    /\ moves' = moves + 1
    /\ \E i \in QuotedInstruments :
         \E v \in PositionValues(i) \ {exchange_positions[i]} :
           exchange_positions' = [exchange_positions EXCEPT ![i] = v]
    /\ moved' = (moved \/ hpc # "idle")
    /\ UNCHANGED <<hpc, stock_id, hedgeLocals, hedge_orders, hedges>>
    /\ UNCHANGED hedgeFrame

HedgeIdle ==
    /\ hpc = "idle"
    /\ stock_id = "none"
    /\ todo = <<>>
    /\ positions = NoPositions
    /\ options_deltas = <<>>
    /\ aggregate_position_delta = 0
    /\ stock_position = 0
    /\ underlying_order_book = NoBook
    /\ hedge_orders = <<>>
    /\ moved = FALSE
    /\ hedges = 0
    /\ moves = 0

-----------------------------------------------------------------------------
(* The trade loop, lines 674-710 *)

\* an order book of exchange.get_last_price_book: None, or the price levels of
\* each side, best first
PriceLevel(price, volume) == [price |-> price, volume |-> volume]
\* best bids 99.0 and 99.5, best asks 101.0 and 100.25, volumes 10, 5 and 1;
\* the prices are binary fractions, so every product below is exact
BidSides ==
    {<<>>} \cup { <<PriceLevel(FloatOf(p, 4), v)>> : p \in {396, 398}, v \in {10, 5, 1} }
AskSides ==
    {<<>>} \cup { <<PriceLevel(FloatOf(p, 4), v)>> : p \in {404, 401}, v \in {10, 5, 1} }
OrderBooks == {None} \cup [bids : BidSides, asks : AskSides]

\* a midpoint that weights each price with the volume of the other side
WeightedMidpointSwapped(bid, ask) ==
    FloatDiv(FloatAdd(FloatMul(bid.price, FloatOfInt(ask.volume)),
                      FloatMul(ask.price, FloatOfInt(bid.volume))),
             FloatOfInt(ask.volume + bid.volume))

\* lines 39-44: the volume-weighted midpoint of the best bid and the best ask
WeightedMidpoint(bid, ask) ==
    FloatDiv(FloatAdd(FloatMul(bid.price, FloatOfInt(bid.volume)),
                      FloatMul(ask.price, FloatOfInt(ask.volume))),
             FloatOfInt(ask.volume + bid.volume))

\* lines 31-44, given the book the exchange returns for the instrument
get_weighted_midpoint_value(order_book) ==
    IF order_book = None THEN None
    ELSE IF order_book.bids = <<>> \/ order_book.asks = <<>> THEN None
    ELSE WeightedMidpoint(order_book.bids[1], order_book.asks[1])

\* the iterations of the while loop a run goes through
MaxIterations == 2

\* the statements of the loop body, in the order of lines 680-710
LoopSteps == <<"midpoint_NVDA", "options", "futures", "dual_NVDA", "hedge_NVDA",
               "midpoint_SAN", "dual_SAN", "hedge_SAN", "sleep">>
\* a loop body that hedges NVDA before it quotes NVDA_DUAL
StepAfterHedgeFirst(step) ==
    LET steps == <<"midpoint_NVDA", "options", "futures", "hedge_NVDA", "dual_NVDA",
                   "midpoint_SAN", "dual_SAN", "hedge_SAN", "sleep">>
        i == CHOOSE k \in 1..Len(steps) : steps[k] = step
    IN  steps[i + 1]
\* the statement that follows a statement of the loop body
StepAfter(step) ==
    LET i == CHOOSE k \in 1..Len(LoopSteps) : LoopSteps[k] = step
    IN  LoopSteps[i + 1]
\* the statements of the loop body that concern one underlying
MidpointStep(stock) == IF stock = "NVDA" THEN "midpoint_NVDA" ELSE "midpoint_SAN"
DualStep(stock) == IF stock = "NVDA" THEN "dual_NVDA" ELSE "dual_SAN"
HedgeStep(stock) == IF stock = "NVDA" THEN "hedge_NVDA" ELSE "hedge_SAN"
\* a loop that goes on with the statement after the check of the midpoint
AfterNoneFallsThrough(stock) == StepAfter(MidpointStep(stock))
\* a loop that reads the SAN midpoint although the NVDA midpoint is None
AfterNonePerUnderlying(stock) == IF stock = "NVDA" THEN "midpoint_SAN" ELSE "sleep"
\* lines 682-685 and 700-703: sleep(1); continue
AfterNone(stock) == "sleep"

\* the option kinds load_instruments_for_underlying can hand to the loop: the
\* listed call and put, and a listing whose put carries another kind
OptionKinds ==
    { [o \in {"NVDA_C", "NVDA_P"} |-> OptionKindOf(o)],
      [o \in {"NVDA_C", "NVDA_P"} |-> IF o = "NVDA_C" THEN "CALL" ELSE "OTHER"] }
\* the futures of load_instruments_for_underlying, in the dict's order
LoopFutures == <<"NVDA_F">>
\* the books the two midpoint reads can be given
LoopBooks ==
    { None,
      [bids |-> <<>>, asks |-> <<PriceLevel(FloatOfInt(101), 5)>>],
      [bids |-> <<PriceLevel(FloatOfInt(99), 10)>>, asks |-> <<PriceLevel(FloatOfInt(101), 5)>>] }
\* lengths of the tick histories <<data_instrument, data_underlying>> of lines 284-295
Histories == { <<0, 1>>, <<1, 0>>, <<2, 1>> }
\* the exchange call of one side of update_quotes (lines 130-144, 146-160)
SideCalls(action) == IF action = "maintain" THEN <<>> ELSE <<action>>
\* the exchange calls one update_quotes can make: the deletes of line 116, at
\* most one per side, then the bid's call and the ask's call; a side whose
\* order was deleted has update price set and is not amended
QuoteActions ==
    { [i \in 1..deletes |-> "delete"] \o SideCalls(bid) \o SideCalls(ask) :
        <<deletes, bid, ask>> \in
            { c \in (0..2) \X {"insert", "amend", "maintain"} \X {"insert", "amend", "maintain"} :
                c[1] + (IF c[2] = "amend" THEN 1 ELSE 0)
                     + (IF c[3] = "amend" THEN 1 ELSE 0) <= 2 } }
\* the exchange calls one hedge_delta_position can make (lines 222-252)
HedgeActions == { <<>>, <<"insert">> }

\* lines 60-65: the branch taken on option_kind, and what the return statement does
ValuationOutcome(option_kind) ==
    IF option_kind = "CALL" THEN "call_value"
    ELSE IF option_kind = "PUT" THEN "put_value"
    ELSE "UnboundLocalError"
\* lines 81-88
DeltaOutcome(option_kind) ==
    IF option_kind = "CALL" THEN "call_delta"
    ELSE IF option_kind = "PUT" THEN "put_delta"
    ELSE "Exception"
\* lines 301-376: how get_quantified_data ends for histories of the given lengths;
\* an empty underlying history leaves traded_price_underlying unassigned at its
\* first use, an empty instrument history divides by len(data_instrument) = 0
QuantifiedDataOutcome(data) ==
    IF data[1] = 0 THEN "ZeroDivisionError"
    ELSE IF data[2] = 0 THEN "UnboundLocalError"
    ELSE "ok"
\* lines 435-442: the valuation, then the statistics
OptionOutcome(option_kind, data) ==
    IF ValuationOutcome(option_kind) = "UnboundLocalError" THEN "UnboundLocalError"
    ELSE QuantifiedDataOutcome(data)

UnderlyingOf(instrument) == IF instrument \in {"SAN", "SAN_DUAL"} THEN "SAN" ELSE "NVDA"
Visit(step, instrument, data) == [step |-> step, instrument |-> instrument, data |-> data]
OrderEvents(step, instrument, actions) ==
    [i \in 1..Len(actions) |->
        [step |-> step, instrument |-> instrument, action |-> actions[i]]]
\* the statement has made the exchange calls: they are the calls of the last
\* statement, and the statement joins those that issued order actions
Issue(step, instrument, actions) ==
    /\ calls' = OrderEvents(step, instrument, actions)
    /\ events' = IF actions = <<>> THEN events
                 ELSE Append(events, [step |-> step, instrument |-> instrument])

\* an exception nothing catches leaves the loop and ends the program
Raise(exception) ==
    /\ raised' = exception
    /\ lpc' = "crashed"
    /\ calls' = <<>>
    /\ UNCHANGED <<iteration, stock_value, ltodo, option_kinds, events, none_read>>

\* lines 680-685 and 698-703
Midpoint(stock) ==
    /\ lpc = MidpointStep(stock)
    /\ \E order_book \in LoopBooks :
         /\ stock_value' = get_weighted_midpoint_value(order_book)
         /\ visited' = Append(visited, Visit(lpc, stock, <<>>))
         /\ IF stock_value' = None
            THEN /\ none_read' = none_read \cup {stock}
                 /\ lpc' = AfterNone(stock)
                 /\ ltodo' = <<>>
            ELSE /\ none_read' = none_read
                 /\ lpc' = StepAfter(lpc)
                 /\ ltodo' = IF stock = "NVDA" THEN HedgeOptions ELSE <<>>
    /\ calls' = <<>>
    /\ UNCHANGED <<iteration, option_kinds, raised, events>>
    /\ UNCHANGED <<quoteVars, hedgeVars, feed, pureVars>>

\* lines 687-688: one pass of the for loop over the options
QuoteOption ==
    /\ lpc = "options"
    /\ ltodo # <<>>
    /\ \E data \in Histories, actions \in QuoteActions :
         /\ visited' = Append(visited, Visit(lpc, Head(ltodo), data))
         /\ IF OptionOutcome(option_kinds[Head(ltodo)], data) # "ok"
            THEN Raise(OptionOutcome(option_kinds[Head(ltodo)], data))
            ELSE /\ Issue(lpc, Head(ltodo), actions)
                 /\ ltodo' = IF Tail(ltodo) = <<>> THEN LoopFutures ELSE Tail(ltodo)
                 /\ lpc' = IF Tail(ltodo) = <<>> THEN StepAfter(lpc) ELSE lpc
                 /\ UNCHANGED <<iteration, stock_value, option_kinds, raised, none_read>>
    /\ UNCHANGED <<quoteVars, hedgeVars, feed, pureVars>>

\* lines 690-691: one pass of the for loop over the futures
QuoteFuture ==
    /\ lpc = "futures"
    /\ ltodo # <<>>
    /\ \E data \in Histories, actions \in QuoteActions :
         /\ visited' = Append(visited, Visit(lpc, Head(ltodo), data))
         /\ IF QuantifiedDataOutcome(data) # "ok"
            THEN Raise(QuantifiedDataOutcome(data))
            ELSE /\ Issue(lpc, Head(ltodo), actions)
                 /\ ltodo' = Tail(ltodo)
                 /\ lpc' = IF Tail(ltodo) = <<>> THEN StepAfter(lpc) ELSE lpc
                 /\ UNCHANGED <<iteration, stock_value, option_kinds, raised, none_read>>
    /\ UNCHANGED <<quoteVars, hedgeVars, feed, pureVars>>

\* lines 693 and 705
QuoteDual(stock) ==
    /\ lpc = DualStep(stock)
    /\ \E data \in Histories, actions \in QuoteActions :
         /\ visited' = Append(visited, Visit(lpc, DualOf(stock), data))
         /\ IF QuantifiedDataOutcome(data) # "ok"
            THEN Raise(QuantifiedDataOutcome(data))
            ELSE /\ Issue(lpc, DualOf(stock), actions)
                 /\ lpc' = StepAfter(lpc)
                 /\ UNCHANGED <<iteration, stock_value, ltodo, option_kinds, raised,
                                none_read>>
    /\ UNCHANGED <<quoteVars, hedgeVars, feed, pureVars>>

\* lines 696 and 707: one call of hedge_delta_position that returns
Hedge(stock) ==
    /\ lpc = HedgeStep(stock)
    /\ \E actions \in HedgeActions :
         /\ visited' = Append(visited, Visit(lpc, stock, <<>>))
         /\ Issue(lpc, stock, actions)
    /\ lpc' = StepAfter(lpc)
    /\ UNCHANGED <<iteration, stock_value, ltodo, option_kinds, raised, none_read>>
    /\ UNCHANGED <<quoteVars, hedgeVars, feed, pureVars>>

\* line 674, after the sleep of line 684, 702 or 710: the next iteration
NextIteration ==
    /\ lpc = "sleep"
    /\ iteration < MaxIterations
    /\ iteration' = iteration + 1
    /\ lpc' = "midpoint_NVDA"
    /\ visited' = <<>>
    /\ calls' = <<>>
    /\ events' = <<>>
    /\ none_read' = {}
    /\ UNCHANGED <<stock_value, ltodo, option_kinds, raised>>
    /\ UNCHANGED <<quoteVars, hedgeVars, feed, pureVars>>

LoopIdle ==
    /\ lpc = "off"
    /\ iteration = 0
    /\ stock_value = None
    /\ ltodo = <<>>
    /\ option_kinds = [o \in {} |-> "CALL"]
    /\ raised = "none"
    /\ visited = <<>>
    /\ calls = <<>>
    /\ events = <<>>
    /\ none_read = {}

-----------------------------------------------------------------------------
(* Functions checked on their own *)

\* a trade tick of exchange.get_trade_tick_history
Tick(timestamp, price) == [timestamp |-> timestamp, price |-> price]

RECURSIVE NearestFrom(_, _, _, _, _)
\* lines 312-319 (and 348-355): the passes of the inner for loop from tick i on,
\* with the minimum and the price the earlier passes have left
NearestFrom(timestamp_instrument, data_underlying, i, minimum, traded_price_underlying) ==
    IF i > Len(data_underlying) THEN traded_price_underlying
    ELSE IF minimum > Abs(timestamp_instrument - data_underlying[i].timestamp)
    THEN NearestFrom(timestamp_instrument, data_underlying, i + 1,
                     timestamp_instrument - data_underlying[i].timestamp,
                     data_underlying[i].price)
    ELSE NearestFrom(timestamp_instrument, data_underlying, i + 1, minimum,
                     traded_price_underlying)

RECURSIVE NearestFromLaterOnTie(_, _, _, _, _)
\* an inner loop that also takes a tick that is as near as the one it holds
NearestFromLaterOnTie(timestamp_instrument, data_underlying, i, minimum,
                      traded_price_underlying) ==
    IF i > Len(data_underlying) THEN traded_price_underlying
    ELSE IF minimum >= Abs(timestamp_instrument - data_underlying[i].timestamp)
    THEN NearestFromLaterOnTie(timestamp_instrument, data_underlying, i + 1,
                               timestamp_instrument - data_underlying[i].timestamp,
                               data_underlying[i].price)
    ELSE NearestFromLaterOnTie(timestamp_instrument, data_underlying, i + 1, minimum,
                               traded_price_underlying)
\* a search of the underlying history in which the later tick wins a tie
TradedPriceUnderlyingLaterOnTie(timestamp_instrument, data_underlying) ==
    NearestFromLaterOnTie(timestamp_instrument, data_underlying, 2,
                          Abs(timestamp_instrument - data_underlying[1].timestamp),
                          data_underlying[1].price)

\* lines 310-319: the underlying price get_quantified_data pairs with an
\* instrument trade; the first pass of the loop sets minimum and the price
TradedPriceUnderlying(timestamp_instrument, data_underlying) ==
    NearestFrom(timestamp_instrument, data_underlying, 2,
                Abs(timestamp_instrument - data_underlying[1].timestamp),
                data_underlying[1].price)

\* lines 446-454: the volume of the best level of a book side, 0 for an empty side
CurrentVolume(levels) == IF levels = <<>> THEN 0 ELSE levels[1].volume

\* timestamps of trade ticks, in ticks of the clock
MaxTimestamp == 3
\* the longest underlying history
MaxHistory == 3
\* underlying histories as exchange.get_trade_tick_history returns them, in
\* the order of the trades: the i-th tick trades at price 100 + i, and no tick
\* is earlier than the tick before it
UnderlyingHistories ==
    UNION { { [i \in 1..n |-> Tick(ts[i], 100 + i)] :
                ts \in { t \in [1..n -> 0..MaxTimestamp] :
                            \A i, j \in 1..n : i < j => t[i] <= t[j] } }
            : n \in 1..MaxHistory }
\* mean traded volumes per tick, in tenths of a lot
MeanVolumes == {5, 48, 52, 125, 300, 600}
\* the sides of the instrument's book the sizer reads
SizerSides == { <<>>, <<[volume |-> 10]>>, <<[volume |-> 160]>>, <<[volume |-> 200]>> }
\* prices 0.10, 0.35, 0.60, 1.70, 11.70 and 12.00 handed to the tick rounding
PriceHundredths == {10, 35, 60, 170, 1170, 1200}
\* values 0.00, 0.05, 0.13, 0.30, 0.35, 0.50, 0.60, 0.90, 1.00 and 1.70 of
\* sqrt(average_squared_deviation)
DeviationHundredths == {0, 5, 13, 30, 35, 50, 60, 90, 100, 170}
\* tick sizes 0.1 (line 499) and 0.25
TickSizes == {FloatOf(1, 10), FloatOf(1, 4)}

\* a call that is about to run, and the call once it has returned
Pending(function, args) ==
    [function |-> function, args |-> args, result |-> None, returned |-> FALSE]
Returned(result) == [call EXCEPT !.result = result, !.returned = TRUE]

\* the calls a run can start with
NearestCalls ==
    { Pending("traded_price_underlying", <<timestamp_instrument, data_underlying>>) :
        timestamp_instrument \in 0..MaxTimestamp, data_underlying \in UnderlyingHistories }
SizerCalls ==
    { Pending("optimal_volume", <<average_volume_ask, average_volume_bid, asks, bids>>) :
        average_volume_ask \in MeanVolumes, average_volume_bid \in MeanVolumes,
        asks \in SizerSides, bids \in SizerSides }
RoundCalls ==
    { Pending(function, <<FloatOf(h, 100), tick_size>>) :
        function \in {"round_down_to_tick", "round_up_to_tick"},
        h \in PriceHundredths, tick_size \in TickSizes }
MidpointCalls ==
    { Pending("get_weighted_midpoint_value", <<order_book>>) : order_book \in OrderBooks }

CreditCalls ==
    { Pending("optimal_credit", <<FloatOf(h, 100)>>) : h \in DeviationHundredths }

\* lines 310-319 for one instrument trade and one underlying history
CallNearest ==
    /\ call.function = "traded_price_underlying"
    /\ ~call.returned
    /\ call' = Returned(TradedPriceUnderlying(call.args[1], call.args[2]))
    /\ UNCHANGED <<quoteVars, hedgeVars, feed, loopVars>>

\* lines 443-464 for one pair of mean volumes and one book of the instrument
CallSizer ==
    /\ call.function = "optimal_volume"
    /\ ~call.returned
    /\ call' = Returned(OptimalVolume(AverageTradedVolume(call.args[1], call.args[2]),
                                      CurrentVolume(call.args[3]),
                                      CurrentVolume(call.args[4])))
    /\ UNCHANGED <<quoteVars, hedgeVars, feed, loopVars>>

\* lines 17-21
CallRoundDown ==
    /\ call.function = "round_down_to_tick"
    /\ ~call.returned
    /\ call' = Returned(round_down_to_tick(call.args[1], call.args[2]))
    /\ UNCHANGED <<quoteVars, hedgeVars, feed, loopVars>>

\* lines 24-28
CallRoundUp ==
    /\ call.function = "round_up_to_tick"
    /\ ~call.returned
    /\ call' = Returned(round_up_to_tick(call.args[1], call.args[2]))
    /\ UNCHANGED <<quoteVars, hedgeVars, feed, loopVars>>

\* line 466 (and 548, 626)
CallCredit ==
    /\ call.function = "optimal_credit"
    /\ ~call.returned
    /\ call' = Returned(OptimalCredit(call.args[1]))
    /\ UNCHANGED <<quoteVars, hedgeVars, feed, loopVars>>

\* lines 31-44 for one book of the exchange
CallMidpoint ==
    /\ call.function = "get_weighted_midpoint_value"
    /\ ~call.returned
    /\ call' = Returned(get_weighted_midpoint_value(call.args[1]))
    /\ UNCHANGED <<quoteVars, hedgeVars, feed, loopVars>>

NoCall == Pending("none", <<>>)

PureIdle == call = NoCall

-----------------------------------------------------------------------------
(* Initial states and next-state relations *)

QuoteIdle ==
    /\ orders = {}
    /\ fills = 0
    /\ pc = "idle"
    /\ cycle = 0
    /\ theoretical_price = FloatZero
    /\ optimal_credit = FloatZero
    /\ optimal_volume = 0
    /\ instrument_position = 0
    /\ new_bid_price = FloatZero
    /\ new_ask_price = FloatZero
    /\ outstanding_orders = {}
    /\ arguments = NoArguments
    /\ to_delete = {}
    /\ uq_position = 0
    /\ bid_volume = 0
    /\ ask_volume = 0
    /\ log = <<>>
    /\ previous_cycle = <<>>
    /\ rejected = 0

InitQuote ==
    /\ position \in InitialPositions
    /\ feed = GridFeed
    /\ QuoteIdle
    /\ exchange_positions = NoPositions
    /\ HedgeIdle
    /\ LoopIdle
    /\ PureIdle

\* the end-to-end scenario: one instrument, no inventory, the scenario's feed
InitScenario ==
    /\ position = 0
    /\ feed = ScenarioFeed
    /\ QuoteIdle
    /\ exchange_positions = NoPositions
    /\ HedgeIdle
    /\ LoopIdle
    /\ PureIdle

NextQuote ==
    \/ Strategy
    \/ Snapshot
    \/ Optimize
    \/ FetchOrders
    \/ DeleteStep
    \/ ReadPosition
    \/ BidStep
    \/ AskStep
    \/ Return
    \/ Fill

SpecQuote == InitQuote /\ [][NextQuote]_vars

SpecScenario == InitScenario /\ [][NextQuote]_vars

InitHedge ==
    /\ position = 0
    /\ feed = NoFeed
    /\ QuoteIdle
    /\ exchange_positions \in InitialExchangePositions
    /\ HedgeIdle
    /\ LoopIdle
    /\ PureIdle

NextHedge ==
    \/ HedgeStart
    \/ HedgeOption
    \/ HedgeRestNVDA
    \/ HedgeRestSAN
    \/ HedgeSpin
    \/ HedgeOrder
    \/ HedgeReturn
    \/ PositionMove

\* quoting with an exchange that rejects calls, and then with the market data
\* and the position held still
NextRecovery ==
    \/ StrategyFresh
    \/ StrategyRepeat
    \/ Snapshot
    \/ Optimize
    \/ FetchOrders
    \/ DeleteStep
    \/ DeleteRejected
    \/ ReadPosition
    \/ BidStep
    \/ BidInsertRejected
    \/ AskStep
    \/ AskInsertRejected
    \/ Return

SpecRecovery == InitScenario /\ [][NextRecovery]_vars

\* the interpreter keeps executing the statements of the quoting cycle and the
\* trade loop keeps starting cycles; which calls the exchange rejects is left
\* to the environment
QuoteProgress ==
    /\ WF_vars(StrategyRepeat)
    /\ WF_vars(Snapshot)
    /\ WF_vars(Optimize)
    /\ WF_vars(FetchOrders)
    /\ WF_vars(DeleteStep)
    /\ WF_vars(ReadPosition)
    /\ WF_vars(BidStep)
    /\ WF_vars(AskStep)
    /\ WF_vars(Return)

SpecRecoveryLive == SpecRecovery /\ QuoteProgress

SpecHedge == InitHedge /\ [][NextHedge]_vars

\* the trade loop from its first iteration (line 674)
InitLoop ==
    /\ position = 0
    /\ feed = NoFeed
    /\ QuoteIdle
    /\ exchange_positions = NoPositions
    /\ HedgeIdle
    /\ lpc = "midpoint_NVDA"
    /\ iteration = 1
    /\ stock_value = None
    /\ ltodo = <<>>
    /\ option_kinds \in OptionKinds
    /\ raised = "none"
    /\ visited = <<>>
    /\ calls = <<>>
    /\ events = <<>>
    /\ none_read = {}
    /\ PureIdle

NextLoop ==
    \/ Midpoint("NVDA")
    \/ QuoteOption
    \/ QuoteFuture
    \/ QuoteDual("NVDA")
    \/ Hedge("NVDA")
    \/ Midpoint("SAN")
    \/ QuoteDual("SAN")
    \/ Hedge("SAN")
    \/ NextIteration

SpecLoop == InitLoop /\ [][NextLoop]_vars

\* the functions that are checked call by call
InitPure ==
    /\ position = 0
    /\ feed = NoFeed
    /\ QuoteIdle
    /\ exchange_positions = NoPositions
    /\ HedgeIdle
    /\ LoopIdle
    /\ call \in NearestCalls \cup SizerCalls \cup RoundCalls \cup MidpointCalls
                \cup CreditCalls

NextPure ==
    \/ CallNearest
    \/ CallSizer
    \/ CallRoundDown
    \/ CallRoundUp
    \/ CallMidpoint
    \/ CallCredit

SpecPure == InitPure /\ [][NextPure]_vars

\* the interpreter keeps executing the statements of hedge_delta_position: each
\* of its steps is taken if it stays possible; what the exchange returns and
\* whether positions move is left to the environment
HedgeProgress ==
    /\ WF_vars(HedgeOption)
    /\ WF_vars(HedgeRestNVDA)
    /\ WF_vars(HedgeRestSAN)
    /\ WF_vars(HedgeSpin)
    /\ WF_vars(HedgeOrder)
    /\ WF_vars(HedgeReturn)

SpecHedgeLive == SpecHedge /\ HedgeProgress

-----------------------------------------------------------------------------
(* Properties of the quoting cycle *)

Issued(op, side) == \E i \in 1..Len(log) : log[i].op = op /\ log[i].side = side
\* the cycle's locals are all set: update_quotes has read its position
VolumesKnown == pc \in {"bid", "ask", "done"}
\* operational_optimazation has run
Optimized == pc \in {"fetch", "delete", "bid", "ask", "done"}

\* C1: every resting bid has volume <= position_limit - position and every
\* resting ask has volume <= position_limit + position, in every reachable
\* state, fills being allowed between any two exchange calls.
C1_QuotedVolumeWithinLimit ==
    \A o \in orders :
        /\ o.side = "bid" => o.volume <= PositionLimit - position
        /\ o.side = "ask" => o.volume <= PositionLimit + position

\* C2: starting from no resting orders, with every exchange call succeeding,
\* the instrument never has more than one resting bid or more than one
\* resting ask.
C2_OneOrderPerSide ==
    /\ Cardinality(Bids(orders)) <= 1
    /\ Cardinality(Asks(orders)) <= 1

\* a cycle has replaced both resting orders and both new orders rest
C2_Witness ==
    /\ pc = "done"
    /\ Issued("delete", "bid") /\ Issued("insert", "bid")
    /\ Issued("delete", "ask") /\ Issued("insert", "ask")
    /\ Cardinality(Bids(orders)) = 1
    /\ Cardinality(Asks(orders)) = 1

\* C3: every order inserted in a cycle is priced with the emergency skew of
\* the position read in that cycle: bid round_down(theo - 1.5 credit) and ask
\* round_up(theo + 0.5 credit) above 65, bid round_down(theo - 0.5 credit) and
\* ask round_up(theo + 1.5 credit) below -65, the unskewed prices otherwise.
C3_SkewApplied ==
    pc \in {"ask", "done"} =>
        \A i \in 1..Len(log) :
            log[i].op = "insert" =>
                log[i].price =
                    IF log[i].side = "bid"
                    THEN ValuationAt(theoretical_price, optimal_credit,
                                     instrument_position).new_bid_price
                    ELSE ValuationAt(theoretical_price, optimal_credit,
                                     instrument_position).new_ask_price

\* ---- what a cycle was given, read off the snapshot of line 485 and the
\* ---- positions the cycle read, independently of the flags the code computes
Sides == {"bid", "ask"}
Opposite(side) == IF side = "bid" THEN "ask" ELSE "bid"
SnapshotSide(side) == {o \in outstanding_orders : o.side = side}
DesiredPrice(side) == IF side = "bid" THEN new_bid_price ELSE new_ask_price
\* the side's price is changing: no order of the snapshot rests at the desired price
PriceDiffers(side) == \A o \in SnapshotSide(side) : o.price # DesiredPrice(side)
\* only this side's price is changing and its new price is the price of the
\* resting order of the opposite side
Guarded(side) ==
    /\ PriceDiffers(side)
    /\ \E o \in SnapshotSide(Opposite(side)) :
          /\ o.price = DesiredPrice(Opposite(side))
          /\ o.price = DesiredPrice(side)
\* sizer volume plus |inventory| on the flattening side
AdjustedVolume(side) ==
    optimal_volume +
      (IF side = "ask"
       THEN (IF arguments.inventory > 0 THEN arguments.inventory ELSE 0)
       ELSE (IF arguments.inventory < 0 THEN -arguments.inventory ELSE 0))
Capacity(side) ==
    IF side = "bid" THEN PositionLimit - uq_position ELSE PositionLimit + uq_position
CappedVolume(side) == Min(AdjustedVolume(side), Capacity(side))
NoActionOn(side) == \A i \in 1..Len(log) : log[i].side # side

\* C4: when only one side's price is changing and its new price equals the
\* price of the resting order of the opposite side, no delete and no insert
\* is issued for that side in the cycle.
C4_SelfTradeGuard ==
    Optimized =>
        \A side \in Sides :
            Guarded(side) => ~Issued("delete", side) /\ ~Issued("insert", side)

\* a cycle ended with a resting ask priced off the desired ask, the bid
\* unchanged at the desired ask price, and a positive ask volume
C4_Witness ==
    /\ pc = "done"
    /\ Guarded("ask")
    /\ SnapshotSide("ask") # {}
    /\ ask_volume > 0

\* C5, read with the self-trade guard and the position cap of the same
\* reconciliation: on each side an insert is issued when the side has no order
\* or its price differs from the desired price (unless the guard holds the
\* side or the capped volume is not positive), and only then; an amend, and
\* then no delete or insert, is issued exactly when the existing order has the
\* desired price and a volume other than the desired (capped) volume, which is
\* positive; and no order action at all is issued when the existing order has
\* the desired price and the desired volume.
C5_ActionDetermined ==
    pc = "done" =>
        \A side \in Sides :
            /\ (PriceDiffers(side) /\ ~Guarded(side) /\ CappedVolume(side) > 0)
                 => Issued("insert", side)
            /\ Issued("insert", side) => PriceDiffers(side)
            /\ Issued("amend", side)
                 <=> /\ \E o \in SnapshotSide(side) :
                           o.price = DesiredPrice(side) /\ o.volume # CappedVolume(side)
                     /\ CappedVolume(side) > 0
            /\ Issued("amend", side)
                 => ~Issued("delete", side) /\ ~Issued("insert", side)
            /\ (\E o \in SnapshotSide(side) :
                    o.price = DesiredPrice(side) /\ o.volume = CappedVolume(side))
                 => NoActionOn(side)

\* C6: within a cycle every delete precedes every insert and amend, and when
\* an order is inserted on a side the side's order of the snapshot no longer
\* rests: the old order was pulled before the new one went in.
C6_DeletesFirst ==
    /\ \A i, j \in 1..Len(log) :
          (i < j /\ log[i].op \in {"insert", "amend"}) => log[j].op # "delete"
    /\ pc \in {"ask", "done"} =>
          \A side \in Sides :
              Issued("insert", side) =>
                  \A o \in SnapshotSide(side) :
                      /\ \A r \in orders : r.order_id # o.order_id
                      /\ (Issued("delete", side) =>
                            \E i, j \in 1..Len(log) :
                                /\ i < j
                                /\ log[i].op = "delete" /\ log[i].order_id = o.order_id
                                /\ log[j].op = "insert" /\ log[j].side = side)

\* both resting orders were replaced: two deletes, then two inserts
C6_Witness ==
    /\ pc = "done"
    /\ Len(log) = 4
    /\ log[1].op = "delete" /\ log[2].op = "delete"
    /\ log[3].op = "insert" /\ log[4].op = "insert"

\* C7: every volume submitted on a side (insert or amend) is the sizer volume
\* plus |inventory| on the flattening side, capped at limit - position (bid)
\* or limit + position (ask), and is positive: a side whose capped volume is
\* not positive gets no insert and no amend.
C7_SubmittedVolume ==
    pc \in {"ask", "done"} =>
        \A i \in 1..Len(log) :
            log[i].op \in {"insert", "amend"} =>
                /\ log[i].volume = CappedVolume(log[i].side)
                /\ CappedVolume(log[i].side) > 0

\* position 95: the bid of a 45-lot sizer volume went in with 5 lots
C7_Witness ==
    /\ pc = "done"
    /\ uq_position = 95
    /\ optimal_volume = 45
    /\ \E i \in 1..Len(log) :
          log[i].op = "insert" /\ log[i].side = "bid" /\ log[i].volume = 5

-----------------------------------------------------------------------------
(* Hedging: what hedge_delta_position sent when it is about to return *)

HedgeDone == hpc = "done"
ThresholdOf(stock) == IF stock = "NVDA" THEN 100 * HedgeThresholdNVDA ELSE 100 * HedgeThresholdSAN
\* the stock's position on the exchange when the hedge order, if any, was sent
StockBefore ==
    IF hedge_orders = <<>> THEN exchange_positions[stock_id]
    ELSE hedge_orders[1].position_before
RoundedAggregate == Abs(RoundHalfEven(aggregate_position_delta, 100))
SentOne(side, price) ==
    /\ Len(hedge_orders) = 1
    /\ hedge_orders[1].side = side
    /\ hedge_orders[1].order_type = "ioc"
    /\ hedge_orders[1].instrument = stock_id
    /\ hedge_orders[1].price = price
SentOneOf(side, price, volume) ==
    /\ SentOne(side, price)
    /\ hedge_orders[1].volume = volume

\* C8 as stated: above +threshold exactly one immediate-or-cancel sell in the
\* underlying at the best bid, below -threshold exactly one immediate-or-cancel
\* buy at the best ask, with |aggregate| <= threshold no order.
C8_HedgeBeyondThresholdAsStated ==
    HedgeDone =>
        /\ aggregate_position_delta > ThresholdOf(stock_id) =>
              SentOne("ask", underlying_order_book.bid)
        /\ aggregate_position_delta < -ThresholdOf(stock_id) =>
              SentOne("bid", underlying_order_book.ask)
        /\ Abs(aggregate_position_delta) <= ThresholdOf(stock_id) =>
              hedge_orders = <<>>

\* C8: above +threshold and with room to sell (100 + stock position > 0) exactly
\* one immediate-or-cancel sell of min(round(|aggregate|), 100 + stock position)
\* at the best bid last read; below -threshold and with room to buy
\* (100 - stock position > 0) exactly one immediate-or-cancel buy of
\* min(round(|aggregate|), 100 - stock position) at the best ask last read; in
\* every other case, |aggregate| <= threshold included, no order.
C8_HedgeBeyondThreshold ==
    HedgeDone =>
        LET room_to_sell == HedgePositionLimit + StockBefore
            room_to_buy  == HedgePositionLimit - StockBefore
        IN  /\ (aggregate_position_delta > ThresholdOf(stock_id) /\ room_to_sell > 0) =>
                  SentOneOf("ask", underlying_order_book.bid,
                            Min(RoundedAggregate, room_to_sell))
            /\ (aggregate_position_delta > ThresholdOf(stock_id) /\ room_to_sell <= 0) =>
                  hedge_orders = <<>>
            /\ (aggregate_position_delta < -ThresholdOf(stock_id) /\ room_to_buy > 0) =>
                  SentOneOf("bid", underlying_order_book.ask,
                            Min(RoundedAggregate, room_to_buy))
            /\ (aggregate_position_delta < -ThresholdOf(stock_id) /\ room_to_buy <= 0) =>
                  hedge_orders = <<>>
            /\ Abs(aggregate_position_delta) <= ThresholdOf(stock_id) =>
                  hedge_orders = <<>>

\* an aggregate of 40 against NVDA's threshold of 35 has sold 40 at the best bid
C8_Witness ==
    /\ HedgeDone
    /\ stock_id = "NVDA"
    /\ aggregate_position_delta = 4000
    /\ SentOneOf("ask", underlying_order_book.bid, 40)

\* C9: every hedge order has a positive volume, a sell at most 100 + stock
\* position and a buy at most 100 - stock position, and the position of each
\* underlying stock stays within [-100, 100].
C9_HedgeVolumeWithinCapacity ==
    /\ \A k \in 1..Len(hedge_orders) :
         LET o == hedge_orders[k] IN
         /\ o.volume > 0
         /\ o.side = "ask" => o.volume <= HedgePositionLimit + o.position_before
         /\ o.side = "bid" => o.volume <= HedgePositionLimit - o.position_before
    /\ \A s \in Underlyings :
         /\ exchange_positions[s] >= -HedgePositionLimit
         /\ exchange_positions[s] <= HedgePositionLimit

\* the capacity binds: a sell smaller than the rounded aggregate has traded in
\* full and taken the stock to -100
C9_Witness ==
    /\ HedgeDone
    /\ hedge_orders # <<>>
    /\ hedge_orders[1].side = "ask"
    /\ hedge_orders[1].position_before > -HedgePositionLimit
    /\ hedge_orders[1].volume = HedgePositionLimit + hedge_orders[1].position_before
    /\ hedge_orders[1].volume < RoundedAggregate
    /\ hedge_orders[1].filled = hedge_orders[1].volume
    /\ exchange_positions[stock_id] = -HedgePositionLimit

\* the capacity binds on the other side: a buy smaller than the rounded
\* aggregate has been sent for all the room the stock position leaves
C9_WitnessBuy ==
    /\ HedgeDone
    /\ hedge_orders # <<>>
    /\ hedge_orders[1].side = "bid"
    /\ hedge_orders[1].position_before > 0
    /\ hedge_orders[1].volume = HedgePositionLimit - hedge_orders[1].position_before
    /\ hedge_orders[1].volume < RoundedAggregate

AggregateComputed == hpc = "book" /\ ~moved

\* C10: with the positions unchanged while it runs, the aggregate delta for
\* NVDA is the sum over the options of delta x position, plus the futures'
\* positions, the stock's position and NVDA_DUAL's position; for SAN it is the
\* SAN position plus the SAN_DUAL position (deltas and aggregate in hundredths).
C10_AggregateDelta ==
    AggregateComputed =>
        IF stock_id = "NVDA"
        THEN aggregate_position_delta =
                 options_deltas["NVDA_C"] * exchange_positions["NVDA_C"]
               + options_deltas["NVDA_P"] * exchange_positions["NVDA_P"]
               + 100 * exchange_positions["NVDA_F"]
               + 100 * exchange_positions["NVDA"]
               + 100 * exchange_positions["NVDA_DUAL"]
        ELSE aggregate_position_delta =
                 100 * exchange_positions["SAN"] + 100 * exchange_positions["SAN_DUAL"]

\* every term of the NVDA aggregate is present
C10_Witness ==
    /\ AggregateComputed
    /\ stock_id = "NVDA"
    /\ \A i \in {"NVDA_C", "NVDA_P", "NVDA_F", "NVDA", "NVDA_DUAL"} :
         exchange_positions[i] # 0
    /\ options_deltas["NVDA_C"] = 37

\* C11: a hedge call that has read the underlying's book, whatever it holds,
\* completes: it reaches its return (the book staying one-sided or empty
\* included).
C11_HedgeCompletes == (hpc = "book") ~> HedgeDone


-----------------------------------------------------------------------------
(* The trade loop *)

\* the place of a quoting or hedging step in the order the loop is to follow
StepRank(step) ==
    CASE step = "options"    -> 1
      [] step = "futures"    -> 2
      [] step = "dual_NVDA"  -> 3
      [] step = "hedge_NVDA" -> 4
      [] step = "dual_SAN"   -> 5
      [] step = "hedge_SAN"  -> 6
      [] OTHER               -> 0
IsWorkStep(v) == StepRank(v.step) > 0
\* the quoting and hedging steps of the current iteration, midpoint reads left out
WorkDone == SelectSeq(visited, IsWorkStep)
\* the iteration ran to the sleep of line 710
CycleCompleted == lpc = "sleep" /\ none_read = {}

\* C12: in a completed iteration the steps are, in this order, every NVDA
\* option, every NVDA future, NVDA_DUAL, the NVDA hedge, SAN_DUAL, the SAN
\* hedge; and at any moment no order action of a later step precedes an order
\* action of an earlier step of the same iteration: the statements that issued
\* order actions are in the order of the steps, and the exchange calls of a
\* statement are made within it.
C12_StepOrder ==
    /\ \A i, j \in DOMAIN events :
         i < j => StepRank(events[i].step) <= StepRank(events[j].step)
    /\ \A k \in DOMAIN calls :
         /\ events # <<>>
         /\ calls[k].step = events[Len(events)].step
         /\ calls[k].instrument = events[Len(events)].instrument
    /\ \A i, j \in DOMAIN WorkDone :
         i < j => StepRank(WorkDone[i].step) <= StepRank(WorkDone[j].step)
    /\ CycleCompleted =>
         [i \in DOMAIN WorkDone |-> <<WorkDone[i].step, WorkDone[i].instrument>>]
           = << <<"options", "NVDA_C">>, <<"options", "NVDA_P">>,
                <<"futures", "NVDA_F">>, <<"dual_NVDA", "NVDA_DUAL">>,
                <<"hedge_NVDA", "NVDA">>, <<"dual_SAN", "SAN_DUAL">>,
                <<"hedge_SAN", "SAN">> >>

\* a completed iteration in which every one of the six steps sent an order
C12_Witness ==
    /\ CycleCompleted
    /\ \A r \in 1..6 : \E i \in DOMAIN events : StepRank(events[i].step) = r


\* the statements that issued order actions, and the quoting and hedging steps,
\* of the current iteration that concern the underlying or an instrument on it
EventsOn(stock) == { i \in DOMAIN events : UnderlyingOf(events[i].instrument) = stock }
WorkOn(stock) == { i \in DOMAIN WorkDone : UnderlyingOf(WorkDone[i].instrument) = stock }

\* C13: once the midpoint of an underlying has been read as None (its book
\* missing or empty on a side), the iteration issues no quote and no hedge
\* action for that underlying's instruments, and the next step of the loop is
\* the start of the next iteration.
C13_NoneSkipsUnderlying ==
    /\ [](\A stock \in none_read :
             EventsOn(stock) = {} /\ WorkOn(stock) = {} /\ lpc = "sleep")
    /\ [][none_read # {} =>
             /\ iteration' = iteration + 1
             /\ lpc' = "midpoint_NVDA"]_vars

\* the SAN midpoint was read as None after the NVDA steps had sent orders
C13_Witness ==
    /\ none_read = {"SAN"}
    /\ stock_value = None
    /\ EventsOn("NVDA") # {}
    /\ iteration = 2


\* the quoting steps of the current iteration whose instrument had no trade ticks
EmptyHistorySteps == { i \in DOMAIN WorkDone :
                         Len(WorkDone[i].data) = 2 /\ WorkDone[i].data[1] = 0 }

\* C15: an instrument with an empty trade-tick history makes the statistics
\* fail with InsufficientData and not with a division by zero; no order action
\* is issued for the instrument and the loop goes on with the remaining
\* instruments and iterations.
C15_EmptyHistorySkipped ==
    \A i \in EmptyHistorySteps :
        /\ raised \in {"none", "InsufficientData"}
        /\ lpc # "crashed"
        /\ \A k \in DOMAIN events : events[k].instrument # WorkDone[i].instrument

\* the options of the current iteration's steps whose kind is neither CALL nor PUT
InvalidKindSteps == { i \in DOMAIN WorkDone :
                        /\ WorkDone[i].step = "options"
                        /\ option_kinds[WorkDone[i].instrument] \notin {"CALL", "PUT"} }

\* C16: for an option whose kind is neither CALL nor PUT the valuation and the
\* delta computation fail with InvalidInstrument; the failure ends the
\* processing of that option only, and the loop goes on with the other
\* instruments and iterations.
C16_InvalidKindContained ==
    \A i \in InvalidKindSteps :
        /\ ValuationOutcome(option_kinds[WorkDone[i].instrument]) = "InvalidInstrument"
        /\ DeltaOutcome(option_kinds[WorkDone[i].instrument]) = "InvalidInstrument"
        /\ raised \in {"none", "InvalidInstrument"}
        /\ lpc # "crashed"


-----------------------------------------------------------------------------
(* Quoting from scratch *)

\* the cycle that has just ended found no resting order and no inventory
FreshCycle ==
    /\ pc = "done"
    /\ outstanding_orders = {}
    /\ instrument_position = 0
    /\ arguments.optimal_bid_volume = optimal_volume
    /\ arguments.optimal_ask_volume = optimal_volume
    /\ uq_position = 0
    /\ optimal_volume > 0
    /\ optimal_volume <= PositionLimit
IsInsert(action, side, price, volume) ==
    /\ action.op = "insert"
    /\ action.side = side
    /\ action.price = price
    /\ action.volume = volume

\* C18: with no resting order, no inventory and a sizer volume V in 1..100, a
\* quoting cycle issues exactly two order actions: an insert of a bid of V lots
\* at round_down(theoretical - credit) and an insert of an ask of V lots at
\* round_up(theoretical + credit); for theoretical 12.00, credit 0.3 and V 20
\* these are a bid at 11.70 and an ask at 12.30.
C18_FreshQuote ==
    FreshCycle =>
        /\ Len(log) = 2
        /\ IsInsert(log[1], "bid",
                    round_down_to_tick(FloatSub(theoretical_price, optimal_credit), TickSize),
                    optimal_volume)
        /\ IsInsert(log[2], "ask",
                    round_up_to_tick(FloatAdd(theoretical_price, optimal_credit), TickSize),
                    optimal_volume)
        /\ (theoretical_price = FloatOf(1200, 100) /\ optimal_volume = 20) =>
              /\ log[1].price = FloatOf(1170, 100)
              /\ log[2].price = FloatOf(1230, 100)


-----------------------------------------------------------------------------
(* Functions checked on their own: the call that has returned *)

HasReturned(function) == call.function = function /\ call.returned

\* the first tick of the history that is nearest in time to the timestamp
NearestTick(timestamp, history) ==
    CHOOSE i \in DOMAIN history :
        \A j \in DOMAIN history :
            \/ Abs(timestamp - history[i].timestamp) < Abs(timestamp - history[j].timestamp)
            \/ /\ Abs(timestamp - history[i].timestamp) = Abs(timestamp - history[j].timestamp)
               /\ i <= j

\* C14: for an instrument trade and a non-empty underlying history the
\* underlying price used is the price of the underlying trade whose timestamp
\* is nearest in absolute difference to the instrument trade's timestamp, the
\* earliest such trade of the sequence on a tie.
C14_NearestNeighbour ==
    HasReturned("traded_price_underlying") =>
        call.result = call.args[2][NearestTick(call.args[1], call.args[2])].price

\* the nearest tick was the second of three, the third being as near and later
C14_Witness ==
    /\ HasReturned("traded_price_underlying")
    /\ Len(call.args[2]) = 3
    /\ NearestTick(call.args[1], call.args[2]) = 2
    /\ call.args[2][3].timestamp > call.args[1]
    /\ call.args[2][2].timestamp < call.args[1]
    /\ call.args[2][3].timestamp - call.args[1] = call.args[1] - call.args[2][2].timestamp
    /\ call.result = call.args[2][2].price


\* the volume at the best level of a book side, an empty side counting as 0
BestVolume(levels) == IF Len(levels) = 0 THEN 0 ELSE levels[1].volume
\* round(min(mean ask volume, mean bid volume)) of the returned sizer call
SizerBaseline == RoundHalfEven(Min(call.args[1], call.args[2]), 10)
\* the smaller of the two best-of-book volumes of the returned sizer call
SizerSmaller == Min(BestVolume(call.args[3]), BestVolume(call.args[4]))

\* C17: the sizer's volume is the baseline round(min(mean ask volume, mean bid
\* volume)) when the smaller best-of-book volume does not exceed the baseline,
\* round(baseline + 0.15 * excess) when it does, and never more than 45: a
\* value above 45 is replaced by 45.
C17_SizerTarget ==
    HasReturned("optimal_volume") =>
        LET target == IF SizerSmaller <= SizerBaseline
                      THEN SizerBaseline
                      ELSE RoundHalfEven(100 * SizerBaseline
                                           + 15 * (SizerSmaller - SizerBaseline), 100)
        IN  /\ call.result <= 45
            /\ call.result = Min(target, 45)

\* baseline 5 against best volumes 160 and 10: excess 5, volume round(5.75) = 6
C17_Witness ==
    /\ HasReturned("optimal_volume")
    /\ SizerBaseline = 5
    /\ SizerSmaller = 10
    /\ call.result = 6


\* Python's x % t == 0 on doubles
IsMultipleOf(x, t) == FloatMod(x, t) = FloatZero

\* C19: round_down_to_tick(p, t) is an exact multiple of t with
\* round_down_to_tick(p, t) <= p < round_down_to_tick(p, t) + t, and
\* round_up_to_tick(p, t) is an exact multiple of t with
\* round_up_to_tick(p, t) - t < p <= round_up_to_tick(p, t); so an inserted
\* price has price mod tick_size = 0.
C19_TickRounding ==
    /\ HasReturned("round_down_to_tick") =>
         /\ IsMultipleOf(call.result, call.args[2])
         /\ FloatCmp(call.result, call.args[1]) <= 0
         /\ FloatCmp(call.args[1], FloatAdd(call.result, call.args[2])) < 0
    /\ HasReturned("round_up_to_tick") =>
         /\ IsMultipleOf(call.result, call.args[2])
         /\ FloatCmp(FloatSub(call.result, call.args[2]), call.args[1]) < 0
         /\ FloatCmp(call.args[1], call.result) <= 0


\* a book price of the model in quarters: the prices are multiples of 0.25
Quarters(price) == FloatFloor(FloatMul(price, FloatOfInt(4)))
\* the double nearest to (bid price * bid volume + ask price * ask volume) /
\* (bid volume + ask volume), computed from the exact fraction
ExactMidpoint(bid, ask) ==
    FloatOf(Quarters(bid.price) * bid.volume + Quarters(ask.price) * ask.volume,
            4 * (bid.volume + ask.volume))
\* the book with best bid 99 x 10 and best ask 101 x 5
ExampleBook == [bids |-> <<PriceLevel(FloatOfInt(99), 10)>>,
                asks |-> <<PriceLevel(FloatOfInt(101), 5)>>]

\* C20: get_weighted_midpoint_value returns None when the book is missing or
\* has no bid or no ask; otherwise it returns (best bid price * best bid volume
\* + best ask price * best ask volume) / (best bid volume + best ask volume);
\* bid 99 x 10 and ask 101 x 5 give 1495 / 15.
C20_WeightedMidpoint ==
    HasReturned("get_weighted_midpoint_value") =>
        LET order_book == call.args[1] IN
        /\ IF order_book = None THEN call.result = None
           ELSE IF Len(order_book.bids) = 0 \/ Len(order_book.asks) = 0
           THEN call.result = None
           ELSE call.result = ExactMidpoint(order_book.bids[1], order_book.asks[1])
        /\ order_book = ExampleBook => call.result = FloatOf(1495, 15)

\* the midpoint 1495 / 15 of the example book has been returned
C20_Witness ==
    /\ HasReturned("get_weighted_midpoint_value")
    /\ call.args[1] = ExampleBook
    /\ call.result = FloatOf(1495, 15)
    /\ call.result # None


\* the most ticks a credit of the model spans
MaxCreditTicks == 20
\* the double k * 0.1
TickMultiple(k) == FloatMul(FloatOfInt(k), TickSize)

\* C21: the credit is sqrt(mean squared deviation) truncated down to a
\* multiple of the tick 0.1: the largest non-negative multiple k * 0.1 that
\* does not exceed the deviation, so that (k + 1) * 0.1 does exceed it; it is
\* never above the deviation.
C21_CreditTruncated ==
    HasReturned("optimal_credit") =>
        /\ FloatCmp(call.result, call.args[1]) <= 0
        /\ FloatCmp(call.result, FloatZero) >= 0
        /\ \E k \in 0..MaxCreditTicks :
              /\ call.result = TickMultiple(k)
              /\ FloatCmp(call.args[1], TickMultiple(k + 1)) < 0


-----------------------------------------------------------------------------
(* Order ids and prices of the quoting cycle *)

\* C23: every amend and every delete that update_quotes issues names the id of
\* an order of the same side that the outstanding-order snapshot of the cycle
\* held; no amend is issued on a side for which the snapshot held no order.
C23_AmendAndDeleteNameSnapshotOrders ==
    \A i \in 1..Len(log) :
        log[i].op \in {"amend", "delete"} =>
            \E o \in outstanding_orders :
                o.order_id = log[i].order_id /\ o.side = log[i].side

\* C24: whenever the engine has both a resting bid and a resting ask in the
\* instrument, every resting bid is priced strictly below every resting ask.
C24_QuotesNotCrossed ==
    \A b \in Bids(orders), a \in Asks(orders) : FloatCmp(b.price, a.price) < 0


\* the cycle that has just ended saw what the cycle before it saw: the same
\* theoretical value, credit and sizer volume, and no fill has moved the position
SameAsPreviousCycle ==
    /\ pc = "done"
    /\ previous_cycle = <<theoretical_price, optimal_credit, optimal_volume>>
    /\ fills = 0

\* C25: a quoting cycle that follows a completed cycle and sees the same
\* theoretical value, credit, target volume and position issues no delete, no
\* insert and no amend, at every position, those beyond 65 and those where the
\* position limit caps a side included.
C25_Quiescent == SameAsPreviousCycle => log = <<>>


-----------------------------------------------------------------------------
(* The trade loop: SAN after NVDA *)

\* the steps of the current iteration, midpoint reads included, that concern SAN
VisitedOn(stock) == { i \in DOMAIN visited : UnderlyingOf(visited[i].instrument) = stock }

\* C26: in an iteration in which the NVDA midpoint is read as None (the NVDA
\* book missing or empty on a side), the loop neither quotes SAN_DUAL nor
\* hedges SAN: no SAN step runs and no order action for SAN or SAN_DUAL is
\* issued for as long as the NVDA book stays that way.
C26_SanWaitsForNvda ==
    "NVDA" \in none_read => EventsOn("SAN") = {} /\ VisitedOn("SAN") = {}

\* the second iteration of a run has ended at the NVDA midpoint read
C26_Witness ==
    /\ none_read = {"NVDA"}
    /\ iteration = 2
    /\ lpc = "sleep"
    /\ Len(visited) = 1


-----------------------------------------------------------------------------
(* Recovery from a rejected exchange call *)

\* the price update_quotes puts on a side for the inputs of the last completed cycle
DesiredPrice22(side) ==
    IF side = "bid"
    THEN ValuationAt(previous_cycle[1], previous_cycle[2], 0).bid_price
    ELSE ValuationAt(previous_cycle[1], previous_cycle[2], 0).ask_price
\* between two cycles the instrument has at most one resting order per side,
\* each at the desired price
Reconciled ==
    /\ pc = "idle"
    /\ previous_cycle # <<>>
    /\ Cardinality(Bids(orders)) <= 1
    /\ Cardinality(Asks(orders)) <= 1
    /\ \A o \in orders : o.price = DesiredPrice22(o.side)

\* C22: after the exchange has rejected a delete or an insert, the cycles that
\* follow, with every call succeeding and market data and position unchanged,
\* eventually bring the instrument back to at most one resting order per side,
\* each at the desired price.
C22_Recovery == (rejected > 0) ~> Reconciled

=============================================================================
